---- MODULE Spec2Model ----
(***************************************************************************)
(* A model of the aes256go package: GF(2^8) arithmetic, the Rijndael       *)
(* S-box generator, the AES-256 key schedule, the block cipher, the modes  *)
(* of operation (ECB, CBC, CFB, OFB, CTR, GCM) and GMAC.                   *)
(*                                                                         *)
(* Byte slices are sequences of numbers in 0..255.  Go indexes from 0 and  *)
(* TLA+ from 1: At(s, i) is the Go expression s[i] and Slice(s, lo, hi)    *)
(* the Go expression s[lo:hi].  A nil slice and an empty slice are both    *)
(* the empty sequence; where the code tests a slice against nil the model  *)
(* carries a separate flag.  A Go error value is a string, NoErr for nil.  *)
(***************************************************************************)
EXTENDS Integers, Sequences, FiniteSets, TLC

\* ------------------------------------------------------------------------
\* Program constants (package consts)
\* ------------------------------------------------------------------------
BLOCK_SIZE == 16
KEY_SIZE == 32
WORD_SIZE == 4
NR == 14
ROUND_KEYS == NR + 1
EXP_KEY_SIZE == BLOCK_SIZE * ROUND_KEYS
IV_SIZE == 16
NONCE_SIZE == 12
COUNTER_SIZE == BLOCK_SIZE - NONCE_SIZE
TAG_SIZE == 16

NoErr == "nil"
ErrKeySize == "invalid key size"
ErrStateSize == "state size not matching the block size"
ErrRoundIdx == "round index out of range"
ErrSegment == "invalid segment size"
ErrNonce == "invalid nonce size"
ErrAuth == "GCM authentication failed: Invalid authentication tag"

\* ------------------------------------------------------------------------
\* Go's byte and slice primitives
\* ------------------------------------------------------------------------
Byte == 0..255

At(s, i) == s[i + 1]
Slice(s, lo, hi) == SubSeq(s, lo + 1, hi)
SliceFrom(s, lo) == SubSeq(s, lo + 1, Len(s))
Bytes(f) == f \o <<>>
Zeros(n) == Bytes([i \in 1..n |-> 0])

\* what a call leaves behind: the returned slice, the returned error and
\* whether the call ended in a run-time panic instead of returning
Ret(v) == [out |-> Bytes(v), err |-> NoErr, panic |-> FALSE]
RetErr(e) == [out |-> <<>>, err |-> e, panic |-> FALSE]
Panic == [out |-> <<>>, err |-> NoErr, panic |-> TRUE]

\* s[lo:hi] panics unless lo <= hi <= cap(s); a slice's capacity is taken to
\* be its length
SliceOK(data, lo, hi) == lo <= hi /\ hi <= Len(data)

\* Loop(kind, env, st, n) makes n passes of the body of the loop named kind
\* over the loop state st, and stops early once st.done; env holds what the
\* loop reads and does not change.  It is defined after the loop bodies.
RECURSIVE Loop(_, _, _, _)

RECURSIVE XorBits(_, _, _)
XorBits(a, b, n) ==
    IF n = 0 THEN 0
    ELSE ((a + b) % 2) + 2 * XorBits(a \div 2, b \div 2, n - 1)

RECURSIVE AndBits(_, _, _)
AndBits(a, b, n) ==
    IF n = 0 THEN 0
    ELSE ((a % 2) * (b % 2)) + 2 * AndBits(a \div 2, b \div 2, n - 1)

\* the byte operators ^ and &, tabulated once
XorTab == [a \in Byte |-> [b \in Byte |-> XorBits(a, b, 8)]]
AndTab == [a \in Byte |-> [b \in Byte |-> AndBits(a, b, 8)]]
Xor(a, b) == XorTab[a][b]
And(a, b) == AndTab[a][b]
Shl(a, n) == (a * (2 ^ n)) % 256
Shr(a, n) == a \div (2 ^ n)

\* ------------------------------------------------------------------------
\* package galois
\* ------------------------------------------------------------------------
Gadd(a, b) == Xor(a, b)

Gsub(a, b) == Xor(a, b)

\* the loop "for i := 0; i < 8; i++" of Gmul from pass i on; the result is p
\* with the number of passes made
RECURSIVE GmulLoop(_, _, _, _)
GmulLoop(a, b, p, i) ==
    IF i >= 8 THEN [p |-> p, i |-> i]
    ELSE LET p1 == IF And(b, 1) # 0 THEN Xor(p, a) ELSE p
             hiBitSet == And(a, 128) # 0
             a1 == Shl(a, 1)
             a2 == IF hiBitSet THEN Xor(a1, 27) ELSE a1
         IN  GmulLoop(a2, Shr(b, 1), p1, i + 1)

GmulTab == [a \in Byte |-> [b \in Byte |-> GmulLoop(a, b, 0, 0).p]]

\* the product of the numbers, cut to a byte
GmulOfIntegers(a, b) == (a * b) % 256

Gmul(a, b) == GmulTab[a][b]

\* for i, val := range a { result = append(result, Gadd(val, b[i])) }:
\* the result has len(a) bytes and the call panics when b is shorter than a
GxorBlocksPanics(a, b) == Len(b) < Len(a)

GxorBlocks(a, b) == Bytes([i \in 1..Len(a) |-> Gadd(a[i], b[i])])

\* ------------------------------------------------------------------------
\* package sbox
\* ------------------------------------------------------------------------
RotL8(x, shift) == (Shl(x, shift) + Shr(x, 8 - shift)) % 256

\* a pass that multiplies p by 2 and not by 3
SBoxBodyByTwo(st) ==
    LET p1 == IF And(st.p, 128) # 0 THEN Xor(Shl(st.p, 1), 27) ELSE Shl(st.p, 1)
    IN  [sbox |-> [st.sbox EXCEPT ![p1] = 99],
         p |-> p1, q |-> st.q, done |-> p1 = 1, ps |-> Append(st.ps, <<p1, st.q>>)]

\* one pass of the body of the "for { ... if p == 1 { break } }" loop of
\* InitSBOX; st.done records the break, st.ps the p and q of every pass
SBoxBody(st) ==
    LET p == st.p
        q == st.q
        p1 == IF And(p, 128) # 0
              THEN Xor(Xor(p, Shl(p, 1)), 27)
              ELSE Xor(p, Shl(p, 1))
        qa == Xor(q, Shl(q, 1))
        qb == Xor(qa, Shl(qa, 2))
        qc == Xor(qb, Shl(qb, 4))
        q1 == IF And(qc, 128) # 0 THEN Xor(qc, 9) ELSE qc
        Store(pn, qn) ==
            [sbox |-> [st.sbox EXCEPT ![pn] =
                          Xor(Xor(Xor(Xor(Xor(qn, RotL8(qn, 1)), RotL8(qn, 2)),
                                      RotL8(qn, 3)), RotL8(qn, 4)), 99)],
             p |-> pn, q |-> qn, done |-> pn = 1, ps |-> Append(st.ps, <<pn, qn>>)]
    IN  Store(p1, q1)

\* n passes of the loop, stopping at the break
RECURSIVE SBoxLoop(_, _)
SBoxLoop(st, n) ==
    IF n = 0 \/ st.done THEN st
    ELSE IF n = 1 THEN SBoxBody(st)
    ELSE SBoxLoop(SBoxLoop(st, n \div 2), n - (n \div 2))

\* p is a byte, so the loop either breaks within 256 passes or never does
SBoxRun ==
    SBoxLoop([sbox |-> [i \in Byte |-> 0], p |-> 1, q |-> 1, done |-> FALSE, ps |-> <<>>], 256)

\* the table without "sbox[0] = 0x63"
InitSBOXZeroUnset == SBoxRun.sbox

InitSBOX == [SBoxRun.sbox EXCEPT ![0] = 99]

\* "for i := 0; i < len(sbox); i++ { invsbox[sbox[i]] = byte(i) }": every
\* entry holds the last i written to it, and 0 when none was
InitInvSBOX(sbox) ==
    [v \in Byte |->
        LET is == {i \in Byte : sbox[i] = v}
        IN  IF is = {} THEN 0 ELSE CHOOSE i \in is : \A j \in is : j <= i]

newSBox == InitSBOX

newInvSBox == InitInvSBOX(newSBox)

\* ------------------------------------------------------------------------
\* package key
\* ------------------------------------------------------------------------
RECURSIVE RconLoop(_, _)
RconLoop(rcon, idx) ==
    IF idx = 1 THEN rcon ELSE RconLoop(Gmul(rcon, 2), (idx + 255) % 256)

Rcon(idx) == IF idx = 0 THEN 0 ELSE RconLoop(1, idx)

RotWord(word) == <<word[2], word[3], word[4], word[1]>>

SubWord(word, sbox) == Bytes([i \in 1..WORD_SIZE |-> sbox[word[i]]])

\* a core without RotWord
ScheduleCoreNoRot(word, idx) ==
    LET AddRcon(w) == [w EXCEPT ![1] = Xor(w[1], Rcon(idx))]
    IN  AddRcon(SubWord(word, InitSBOX))

ScheduleCore(word, idx) ==
    LET AddRcon(w) == [w EXCEPT ![1] = Xor(w[1], Rcon(idx))]
    IN  AddRcon(SubWord(RotWord(word), InitSBOX))

\* one pass of the loop "for c < EXP_KEY_SIZE" of ExpandKey: the four bytes
\* at offset c; c, idx and a are bytes, and st.wrapped tells whether one of
\* the byte expressions a+c, c-KEY_SIZE, c++ and idx++ left 0..255
ExpandBody(st) ==
    IF st.c >= EXP_KEY_SIZE THEN [st EXCEPT !.done = TRUE]
    ELSE LET Store(tmp) ==
                 [xKey |-> Bytes([i \in 1..EXP_KEY_SIZE |->
                              IF i - 1 >= st.c /\ i - 1 < st.c + WORD_SIZE
                              THEN Xor(At(st.xKey, i - 1 - KEY_SIZE), tmp[i - st.c])
                              ELSE st.xKey[i]]),
                  c |-> (st.c + WORD_SIZE) % 256,
                  idx |-> IF st.c % KEY_SIZE = 0 THEN (st.idx + 1) % 256 ELSE st.idx,
                  wrapped |-> \/ st.wrapped
                              \/ st.c + WORD_SIZE > 255
                              \/ st.c - KEY_SIZE < 0
                              \/ (st.c % KEY_SIZE = 0 /\ st.idx + 1 > 255),
                  done |-> FALSE]
         IN  CHOOSE next \in
                 {Store(IF st.c % KEY_SIZE = BLOCK_SIZE THEN SubWord(tmp, InitSBOX) ELSE tmp) :
                  tmp \in {IF st.c % KEY_SIZE = 0 THEN ScheduleCore(last, st.idx) ELSE last :
                           last \in {Bytes([a \in 1..WORD_SIZE |->
                                       At(st.xKey, ((((a - 1) + st.c) % 256) + 256
                                                    - WORD_SIZE) % 256)])}}} : TRUE

\* a length check that turns away short keys only
ExpandKeyAtLeast(k) ==
    IF Len(k) < KEY_SIZE
    THEN RetErr(ErrKeySize)
    ELSE CHOOSE r \in
             {Ret(st.xKey) @@ [c |-> st.c, wrapped |-> st.wrapped] :
              st \in {Loop("ExpandKey", <<>>,
                           [xKey |-> k \o Zeros(EXP_KEY_SIZE - KEY_SIZE),
                            c |-> KEY_SIZE, idx |-> 1, wrapped |-> FALSE, done |-> FALSE],
                           EXP_KEY_SIZE)}} : TRUE

ExpandKey(k) ==
    IF Len(k) # KEY_SIZE
    THEN RetErr(ErrKeySize)
    ELSE CHOOSE r \in
             {Ret(st.xKey) @@ [c |-> st.c, wrapped |-> st.wrapped] :
              st \in {Loop("ExpandKey", <<>>,
                           [xKey |-> k \o Zeros(EXP_KEY_SIZE - KEY_SIZE),
                            c |-> KEY_SIZE, idx |-> 1, wrapped |-> FALSE, done |-> FALSE],
                           EXP_KEY_SIZE)}} : TRUE

\* ------------------------------------------------------------------------
\* crypto/sha256, as newSHA256 uses it (FIPS 180-4).  A 32-bit word is the
\* pair <<high 16 bits, low 16 bits>>.
\* ------------------------------------------------------------------------
Xor16(v, w) == 256 * Xor(v \div 256, w \div 256) + Xor(v % 256, w % 256)
And16(v, w) == 256 * And(v \div 256, w \div 256) + And(v % 256, w % 256)

WXor(v, w) == <<Xor16(v[1], w[1]), Xor16(v[2], w[2])>>
WAnd(v, w) == <<And16(v[1], w[1]), And16(v[2], w[2])>>
WNot(v) == <<65535 - v[1], 65535 - v[2]>>
WAdd(v, w) ==
    LET lo == v[2] + w[2]
    IN  <<(v[1] + w[1] + (lo \div 65536)) % 65536, lo % 65536>>
\* rotate and shift right by r bits, 0 < r < 32
WRotR(v, r) ==
    LET hi == IF r >= 16 THEN v[2] ELSE v[1]
        lo == IF r >= 16 THEN v[1] ELSE v[2]
        m == 2 ^ (r % 16)
        d == 2 ^ (16 - (r % 16))
    IN  <<(hi \div m) + (lo % m) * d, (lo \div m) + (hi % m) * d>>
WShr(v, r) ==
    LET m == 2 ^ (r % 16)
        d == 2 ^ (16 - (r % 16))
    IN  IF r >= 16 THEN <<0, v[1] \div m>>
        ELSE <<v[1] \div m, (v[2] \div m) + (v[1] % m) * d>>

sha256K ==
    <<
       <<17034, 12184>>, <<28983, 17553>>, <<46528, 64463>>, <<59829, 56229>>,
       <<14678, 49755>>, <<23025, 4593>>, <<37439, 33444>>, <<43804, 24277>>,
       <<55303, 43672>>, <<4739, 23297>>, <<9265, 34238>>, <<21772, 32195>>,
       <<29374, 23924>>, <<32990, 45566>>, <<39900, 1703>>, <<49563, 61812>>,
       <<58523, 27073>>, <<61374, 18310>>, <<4033, 40390>>, <<9228, 41420>>,
       <<11753, 11375>>, <<19060, 33962>>, <<23728, 43484>>, <<30457, 35034>>,
       <<38974, 20818>>, <<43057, 50797>>, <<45059, 10184>>, <<48985, 32711>>,
       <<50912, 3059>>, <<54695, 37191>>, <<1738, 25425>>, <<5161, 10599>>,
       <<10167, 2693>>, <<11803, 8504>>, <<19756, 28156>>, <<21304, 3347>>,
       <<25866, 29524>>, <<30314, 2747>>, <<33218, 51502>>, <<37490, 11397>>,
       <<41663, 59553>>, <<43034, 26187>>, <<49739, 35696>>, <<51052, 20899>>,
       <<53650, 59417>>, <<54937, 1572>>, <<62478, 13701>>, <<4202, 41072>>,
       <<6564, 49430>>, <<7735, 27656>>, <<10056, 30540>>, <<13488, 48309>>,
       <<14620, 3251>>, <<20184, 43594>>, <<23452, 51791>>, <<26670, 28659>>,
       <<29839, 33518>>, <<30885, 25455>>, <<33992, 30740>>, <<36039, 520>>,
       <<37054, 65530>>, <<42064, 27883>>, <<48889, 41975>>, <<50801, 30962>> >>

sha256Init ==
    <<
       <<27145, 58983>>, <<47975, 44677>>, <<15470, 62322>>, <<42319, 62778>>,
       <<20750, 21119>>, <<39685, 26764>>, <<8067, 55723>>, <<23520, 52505>> >>

\* the message followed by 0x80, zeros and the 64-bit big-endian bit length
sha256Pad(m) ==
    LET bits == 8 * Len(m)
        zs == (119 - (Len(m) % 64)) % 64
    IN  m \o <<128>> \o Zeros(zs)
          \o <<0, 0, 0, 0, (bits \div 16777216) % 256, (bits \div 65536) % 256,
               (bits \div 256) % 256, bits % 256>>

sha256Word(m, o) == <<256 * At(m, o) + At(m, o + 1), 256 * At(m, o + 2) + At(m, o + 3)>>

\* the message schedule of one 64-byte chunk, extended by one word
sha256ScheduleStep(st) ==
    IF Len(st.w) >= 64 THEN [st EXCEPT !.done = TRUE]
    ELSE LET w == st.w
             t == Len(w) + 1
             w15 == w[t - 15]
             w2 == w[t - 2]
             s0 == WXor(WXor(WRotR(w15, 7), WRotR(w15, 18)), WShr(w15, 3))
             s1 == WXor(WXor(WRotR(w2, 17), WRotR(w2, 19)), WShr(w2, 10))
         IN  [w |-> Append(w, WAdd(WAdd(w[t - 16], s0), WAdd(w[t - 7], s1))),
              done |-> FALSE]

\* round number st.t over the working variables st.v = <<a, b, c, d, e, f, g, h>>
sha256Round(w, st) ==
    IF st.t > 64 THEN [st EXCEPT !.done = TRUE]
    ELSE LET v == st.v
             e == v[5]
             S1 == WXor(WXor(WRotR(e, 6), WRotR(e, 11)), WRotR(e, 25))
             ch == WXor(WAnd(e, v[6]), WAnd(WNot(e), v[7]))
             S0 == WXor(WXor(WRotR(v[1], 2), WRotR(v[1], 13)), WRotR(v[1], 22))
             mj == WXor(WXor(WAnd(v[1], v[2]), WAnd(v[1], v[3])), WAnd(v[2], v[3]))
             Out(t1, t2) ==
                 [v |-> <<WAdd(t1, t2), v[1], v[2], v[3], WAdd(v[4], t1), v[5], v[6], v[7]>>,
                  t |-> st.t + 1, done |-> FALSE]
         IN  Out(WAdd(WAdd(WAdd(v[8], S1), WAdd(ch, sha256K[st.t])), w[st.t]),
                 WAdd(S0, mj))

RECURSIVE sha256Chunks(_, _, _)
sha256Chunks(h, m, o) ==
    IF o >= Len(m) THEN h
    ELSE sha256Chunks(
             CHOOSE sum \in
                 {Bytes([j \in 1..8 |-> WAdd(h[j], v[j])]) :
                  v \in {Loop("sha256Round", w, [v |-> h, t |-> 1, done |-> FALSE], 64).v :
                         w \in {Loop("sha256Schedule", <<>>,
                                     [w |-> Bytes([t \in 1..16 |->
                                                     sha256Word(m, o + 4 * (t - 1))]),
                                      done |-> FALSE], 64).w}}} : TRUE,
             m, o + 64)

\* hash := sha256.New(); hash.Write(k); return hash.Sum(nil)
newSHA256(k) ==
    LET Sum(h) ==
            Bytes([j \in 1..32 |->
                     LET w == h[((j - 1) \div 4) + 1]
                     IN  CASE (j - 1) % 4 = 0 -> w[1] \div 256
                           [] (j - 1) % 4 = 1 -> w[1] % 256
                           [] (j - 1) % 4 = 2 -> w[2] \div 256
                           [] OTHER           -> w[2] % 256])
    IN  Sum(sha256Chunks(sha256Init, sha256Pad(k), 0))

\* ------------------------------------------------------------------------
\* package aes256go: the round transforms
\* ------------------------------------------------------------------------
subBytes(state) ==
    IF Len(state) # BLOCK_SIZE THEN RetErr(ErrStateSize)
    ELSE Ret([i \in 1..Len(state) |-> newSBox[state[i]]])

invSubBytes(state) ==
    IF Len(state) # BLOCK_SIZE THEN RetErr(ErrStateSize)
    ELSE Ret([i \in 1..Len(state) |-> newInvSBox[state[i]]])

\* a ShiftRows step that leaves every row where it is
shiftRowsNone(state) ==
    IF Len(state) # BLOCK_SIZE THEN RetErr(ErrStateSize) ELSE Ret(state)

shiftRows(state) ==
    IF Len(state) # BLOCK_SIZE THEN RetErr(ErrStateSize)
    ELSE Ret([n \in 1..Len(state) |->
               LET i == (n - 1) % 4
                   c == (n - 1) \div 4
                   j == i
               IN  At(state, i + 4 * ((j + c) % 4))])

\* rows rotated the way shiftRows rotates them
invShiftRowsForward(state) == shiftRows(state)

invShiftRows(state) ==
    IF Len(state) # BLOCK_SIZE THEN RetErr(ErrStateSize)
    ELSE Ret([n \in 1..Len(state) |->
               LET i == (n - 1) % 4
                   c == (n - 1) \div 4
                   j == 4 - i
               IN  At(state, i + 4 * ((j + c) % 4))])

Xor4(a, b, c, d) == Xor(Xor(Xor(a, b), c), d)

mixColumns(state) ==
    IF Len(state) # BLOCK_SIZE THEN RetErr(ErrStateSize)
    ELSE Ret([n \in 1..Len(state) |->
               LET i == (n - 1) \div 4
                   s0 == At(state, 4 * i + 0)
                   s1 == At(state, 4 * i + 1)
                   s2 == At(state, 4 * i + 2)
                   s3 == At(state, 4 * i + 3)
               IN  CASE (n - 1) % 4 = 0 -> Xor4(Gmul(2, s0), Gmul(3, s1), s2, s3)
                     [] (n - 1) % 4 = 1 -> Xor4(s0, Gmul(2, s1), Gmul(3, s2), s3)
                     [] (n - 1) % 4 = 2 -> Xor4(s0, s1, Gmul(2, s2), Gmul(3, s3))
                     [] OTHER           -> Xor4(Gmul(3, s0), s1, s2, Gmul(2, s3))])

invMixColumns(state) ==
    IF Len(state) # BLOCK_SIZE THEN RetErr(ErrStateSize)
    ELSE Ret([n \in 1..Len(state) |->
               LET i == (n - 1) \div 4
                   s0 == At(state, 4 * i + 0)
                   s1 == At(state, 4 * i + 1)
                   s2 == At(state, 4 * i + 2)
                   s3 == At(state, 4 * i + 3)
               IN  CASE (n - 1) % 4 = 0 ->
                          Xor4(Gmul(14, s0), Gmul(11, s1), Gmul(13, s2), Gmul(9, s3))
                     [] (n - 1) % 4 = 1 ->
                          Xor4(Gmul(9, s0), Gmul(14, s1), Gmul(11, s2), Gmul(13, s3))
                     [] (n - 1) % 4 = 2 ->
                          Xor4(Gmul(13, s0), Gmul(9, s1), Gmul(14, s2), Gmul(11, s3))
                     [] OTHER ->
                          Xor4(Gmul(11, s0), Gmul(13, s1), Gmul(9, s2), Gmul(14, s3))])

\* xk is the receiver's expandedKey
addRoundKey(xk, state, roundIdx) ==
    IF Len(state) # BLOCK_SIZE THEN RetErr(ErrStateSize)
    ELSE IF roundIdx > NR THEN RetErr(ErrRoundIdx)
    ELSE LET roundKey == Slice(xk, roundIdx * BLOCK_SIZE, (roundIdx + 1) * BLOCK_SIZE)
         IN  Ret([i \in 1..Len(state) |-> Gadd(state[i], roundKey[i])])

\* ------------------------------------------------------------------------
\* package aes256go: the block cipher
\* ------------------------------------------------------------------------
\* "state, err = f(state); if err != nil { return nil, err }" for the round
\* transform named first in st.fs; st.prev is the state and error so far,
\* with steps, the transforms called so far and the round of each
ThenBody(env, st) ==
    IF st.fs = <<>> \/ st.prev.err # NoErr THEN [st EXCEPT !.done = TRUE]
    ELSE [st EXCEPT
            !.prev = (CASE Head(st.fs) = "subBytes" -> subBytes(st.prev.out)
                       [] Head(st.fs) = "invSubBytes" -> invSubBytes(st.prev.out)
                       [] Head(st.fs) = "shiftRows" -> shiftRows(st.prev.out)
                       [] Head(st.fs) = "invShiftRows" -> invShiftRows(st.prev.out)
                       [] Head(st.fs) = "mixColumns" -> mixColumns(st.prev.out)
                       [] Head(st.fs) = "invMixColumns" -> invMixColumns(st.prev.out)
                       [] Head(st.fs) = "addRoundKey" ->
                            addRoundKey(env.xk, st.prev.out, env.roundIdx))
                     @@ [steps |-> Append(IF "steps" \in DOMAIN st.prev
                                          THEN st.prev.steps ELSE <<>>,
                                          <<Head(st.fs), env.roundIdx>>)],
            !.fs = Tail(@)]

\* the round transforms named in fs, in turn, each on the result of the last
Then(prev, fs, xk, roundIdx) ==
    Loop("Then", [xk |-> xk, roundIdx |-> roundIdx],
         [prev |-> prev, fs |-> fs, done |-> FALSE], Len(fs)).prev

\* the loop "for roundIdx := 1; roundIdx < NR; roundIdx++" of EncryptBlock
RECURSIVE EncryptRounds(_, _, _)
EncryptRounds(xk, prev, roundIdx) ==
    IF roundIdx >= NR \/ prev.err # NoErr THEN prev
    ELSE EncryptRounds(xk,
                       Then(prev, <<"subBytes", "shiftRows", "mixColumns", "addRoundKey">>,
                            xk, roundIdx),
                       roundIdx + 1)

\* EncryptBlock works on "cipherText := make([]byte, len(state));
\* copy(cipherText, state)"; buf is the caller's state slice when it returns
\* a last round that mixes the columns like the rounds before it
EncryptBlockMixesLast(xk, state) ==
    IF Len(state) # BLOCK_SIZE THEN RetErr(ErrStateSize) @@ [buf |-> state]
    ELSE Then(EncryptRounds(xk, Then(Ret(state), <<"addRoundKey">>, xk, 0), 1),
              <<"subBytes", "shiftRows", "mixColumns", "addRoundKey">>, xk, NR)
             @@ [buf |-> state]

EncryptBlock(xk, state) ==
    IF Len(state) # BLOCK_SIZE THEN RetErr(ErrStateSize) @@ [buf |-> state]
    ELSE Then(EncryptRounds(xk, Then(Ret(state), <<"addRoundKey">>, xk, 0), 1),
              <<"subBytes", "shiftRows", "addRoundKey">>, xk, NR) @@ [buf |-> state]

\* the loop "for roundIdx := NR - 1; roundIdx > 0; roundIdx--" of DecryptBlock
RECURSIVE DecryptRounds(_, _, _)
DecryptRounds(xk, prev, roundIdx) ==
    IF roundIdx <= 0 \/ prev.err # NoErr THEN prev
    ELSE DecryptRounds(xk,
                       Then(prev, <<"invShiftRows", "invSubBytes", "addRoundKey",
                                    "invMixColumns">>, xk, roundIdx),
                       roundIdx - 1)

\* DecryptBlock works on "plainText := make([]byte, len(state));
\* copy(plainText, state)" likewise
DecryptBlock(xk, state) ==
    IF Len(state) # BLOCK_SIZE THEN RetErr(ErrStateSize) @@ [buf |-> state]
    ELSE Then(DecryptRounds(xk, Then(Ret(state), <<"addRoundKey">>, xk, NR), NR - 1),
              <<"invShiftRows", "invSubBytes", "addRoundKey">>, xk, 0) @@ [buf |-> state]

\* ------------------------------------------------------------------------
\* package padding
\* ------------------------------------------------------------------------
ZeroPadding(data) ==
    LET remainder == Len(data) % BLOCK_SIZE
        padLength == BLOCK_SIZE - remainder
    IN  data \o Zeros(padLength)

\* "for paddedData[len(paddedData)-1] == 0x00 { paddedData = paddedData[:len-1] }"
\* indexes at -1 once every byte has been stripped
ZeroUnpadding(paddedData) ==
    LET Strip(nonZero) ==
            IF nonZero = {} THEN Panic
            ELSE Ret(SubSeq(paddedData, 1, CHOOSE i \in nonZero : \A j \in nonZero : j <= i))
    IN  Strip({i \in 1..Len(paddedData) : paddedData[i] # 0})

\* padding that adds nothing to a whole number of blocks
PKCS7PaddingNoFullBlock(data) ==
    LET remainder == Len(data) % BLOCK_SIZE
        padLength == (BLOCK_SIZE - remainder) % BLOCK_SIZE
    IN  data \o Bytes([i \in 1..padLength |-> padLength])

PKCS7Padding(data) ==
    LET remainder == Len(data) % BLOCK_SIZE
        padLength == BLOCK_SIZE - remainder
    IN  data \o Bytes([i \in 1..padLength |-> padLength])

\* paddedData[len(paddedData)-1] panics on an empty slice, and so does
\* paddedData[:len(paddedData)-padLength] when padLength exceeds the length
PKCS7Unpadding(paddedData) ==
    IF Len(paddedData) = 0 THEN Panic
    ELSE LET padLength == paddedData[Len(paddedData)]
         IN  IF Len(paddedData) - padLength < 0 THEN Panic
             ELSE Ret(SubSeq(paddedData, 1, Len(paddedData) - padLength))

\* the values of type padding.Pad and padding.UnPad, by name
Pads == {"ZeroPadding", "PKCS7Padding"}
ApplyPad(pad, data) ==
    IF pad = "ZeroPadding" THEN ZeroPadding(data) ELSE PKCS7Padding(data)
ApplyUnPad(unpad, paddedData) ==
    IF unpad = "ZeroUnpadding" THEN ZeroUnpadding(paddedData) ELSE PKCS7Unpadding(paddedData)

\* ------------------------------------------------------------------------
\* package aes256go: ECB and CBC
\* ------------------------------------------------------------------------
\* the state a block loop starts in: offset i, the output appended so far,
\* and how the loop ended
BlockLoopStart(more) ==
    [i |-> 0, acc |-> <<>>, err |-> NoErr, panic |-> FALSE, done |-> FALSE] @@ more

\* "if err != nil { return nil, err }" inside a block loop
BlockLoopFail(st, r) == [st EXCEPT !.err = r.err, !.panic = r.panic, !.done = TRUE]

\* what a function returns after its block loop
BlockLoopRet(st) ==
    IF st.panic THEN Panic
    ELSE IF st.err # NoErr THEN RetErr(st.err)
    ELSE Ret(st.acc)

\* one pass of "for i := 0; i < len(data); i += BLOCK_SIZE" of EncryptECB
\* (decrypt = FALSE) and of DecryptECB (decrypt = TRUE)
ECBBody(env, st) ==
    IF st.i >= Len(env.data) THEN [st EXCEPT !.done = TRUE]
    ELSE IF ~SliceOK(env.data, st.i, st.i + BLOCK_SIZE)
         THEN [st EXCEPT !.panic = TRUE, !.done = TRUE]
    ELSE LET Put(r) ==
                 IF r.err # NoErr THEN BlockLoopFail(st, r)
                 ELSE [st EXCEPT !.acc = @ \o r.out, !.i = @ + BLOCK_SIZE]
         IN  Put(IF env.decrypt
                 THEN DecryptBlock(env.xk, Slice(env.data, st.i, st.i + BLOCK_SIZE))
                 ELSE EncryptBlock(env.xk, Slice(env.data, st.i, st.i + BLOCK_SIZE)))

EncryptECB(xk, plainText, pad) ==
    CHOOSE r \in
        {BlockLoopRet(Loop("ECB", [xk |-> xk, data |-> paddedPlain, decrypt |-> FALSE],
                           BlockLoopStart(<<>>), Len(paddedPlain) + 1)) :
         paddedPlain \in {ApplyPad(pad, plainText)}} : TRUE

DecryptECB(xk, cipherText, unpad) ==
    LET UnPad(r) == IF r.panic \/ r.err # NoErr THEN r ELSE ApplyUnPad(unpad, r.out)
    IN  UnPad(BlockLoopRet(Loop("ECB", [xk |-> xk, data |-> cipherText, decrypt |-> TRUE],
                                BlockLoopStart(<<>>), Len(cipherText) + 1)))

\* one pass of the loop of EncryptCBC; st.iv is the chaining register
EncryptCBCBody(env, st) ==
    IF st.i >= Len(env.data) THEN [st EXCEPT !.done = TRUE]
    ELSE IF ~SliceOK(env.data, st.i, st.i + BLOCK_SIZE)
         THEN [st EXCEPT !.panic = TRUE, !.done = TRUE]
    ELSE LET Put(r) ==
                 IF r.err # NoErr THEN BlockLoopFail(st, r)
                 ELSE [st EXCEPT !.acc = @ \o r.out, !.iv = r.out, !.i = @ + BLOCK_SIZE]
         IN  Put(EncryptBlock(env.xk,
                              GxorBlocks(Slice(env.data, st.i, st.i + BLOCK_SIZE), st.iv)))

\* rnd is what io.ReadFull(rand.Reader, iv) stores in iv
EncryptCBC(xk, plainText, pad, rnd) ==
    CHOOSE r \in
        {BlockLoopRet(Loop("EncryptCBC", [xk |-> xk, data |-> paddedPlain],
                           [BlockLoopStart([iv |-> rnd]) EXCEPT !.acc = rnd],
                           Len(paddedPlain) + 1)) @@ [rnd |-> rnd] :
         paddedPlain \in {ApplyPad(pad, plainText)}} : TRUE

\* one pass of the loop of DecryptCBC.  iv := cipherText[:IV_SIZE] is a view
\* of the caller's slice, so copy(iv, ...) writes the caller's first 16
\* bytes: st.iv is that view, st.buf the caller's slice
DecryptCBCBody(env, st) ==
    IF st.i >= Len(env.data) THEN [st EXCEPT !.done = TRUE]
    ELSE IF ~SliceOK(env.data, st.i, st.i + BLOCK_SIZE)
         THEN [st EXCEPT !.panic = TRUE, !.done = TRUE]
    ELSE LET Put(blk, r) ==
                 IF r.err # NoErr THEN BlockLoopFail(st, r)
                 ELSE [st EXCEPT !.acc = @ \o GxorBlocks(r.out, st.iv),
                                 !.iv = blk,
                                 !.buf = blk \o SliceFrom(st.buf, IV_SIZE),
                                 !.i = @ + BLOCK_SIZE]
         IN  Put(Slice(env.data, st.i, st.i + BLOCK_SIZE),
                 DecryptBlock(env.xk, Slice(env.data, st.i, st.i + BLOCK_SIZE)))

\* the result carries buf, the bytes of the caller's slice when the call ends
DecryptCBC(xk, cipherText, unpad) ==
    IF ~SliceOK(cipherText, 0, IV_SIZE) THEN Panic @@ [buf |-> cipherText]
    ELSE LET UnPad(r) == IF r.panic \/ r.err # NoErr THEN r ELSE ApplyUnPad(unpad, r.out)
             Done(st) == UnPad(BlockLoopRet(st)) @@ [buf |-> st.buf]
         IN  Done(Loop("DecryptCBC", [xk |-> xk, data |-> SliceFrom(cipherText, IV_SIZE)],
                       BlockLoopStart([iv |-> Slice(cipherText, 0, IV_SIZE),
                                       buf |-> cipherText]),
                       Len(cipherText) + 1))

\* ------------------------------------------------------------------------
\* package aes256go: CFB and OFB
\* ------------------------------------------------------------------------
\* one pass of "for i = 0; i < len(data)-s; i += s" of EncryptCFB
\* (decrypt = FALSE) and DecryptCFB (decrypt = TRUE); st.iv is the shift
\* register, env.data the input without its IV prefix, st.regs the values
\* the register had when it was handed to EncryptBlock
CFBBody(env, st) ==
    IF st.i >= Len(env.data) - env.s THEN [st EXCEPT !.done = TRUE]
    ELSE LET Shift(inBlock, outBlock) ==
                 \* shiftReg := append(iv[s:], cipherBlock...); copy(iv, shiftReg)
                 [st EXCEPT !.acc = @ \o outBlock,
                            !.iv = SliceFrom(st.iv, env.s)
                                   \o (IF env.decrypt THEN inBlock ELSE outBlock),
                            !.regs = Append(@, st.iv),
                            !.i = @ + env.s]
             Put(r) ==
                 IF r.err # NoErr THEN BlockLoopFail(st, r)
                 ELSE IF ~SliceOK(r.out, 0, env.s)
                         \/ ~SliceOK(env.data, st.i, st.i + env.s)
                         \/ ~SliceOK(st.iv, env.s, Len(st.iv))
                      THEN [st EXCEPT !.panic = TRUE, !.done = TRUE]
                 ELSE Shift(Slice(env.data, st.i, st.i + env.s),
                            GxorBlocks(Slice(env.data, st.i, st.i + env.s),
                                       Slice(r.out, 0, env.s)))
         IN  Put(EncryptBlock(env.xk, st.iv))

\* the part after the loop: the last segment data[i:] under the keystream
\* slice lastEncIV[:s]; the result carries the lengths of the two
CFBLast(xk, data, s, st) ==
    IF st.panic \/ st.err # NoErr THEN BlockLoopRet(st)
    ELSE LET Put(r) ==
                 IF r.err # NoErr THEN RetErr(r.err)
                 ELSE IF ~SliceOK(r.out, 0, s) \/ ~SliceOK(data, st.i, Len(data))
                         \/ GxorBlocksPanics(SliceFrom(data, st.i), Slice(r.out, 0, s))
                      THEN Panic
                 ELSE Ret(st.acc \o GxorBlocks(SliceFrom(data, st.i), Slice(r.out, 0, s)))
                      @@ [lastData |-> Len(data) - st.i, lastKey |-> s,
                          regs |-> Append(st.regs, st.iv)]
         IN  Put(EncryptBlock(xk, st.iv))

\* a shift register fed with the input segments, as in DecryptCFB
EncryptCFBFeedsInput(xk, plainText, s, rnd) ==
    IF s < 1 \/ s > BLOCK_SIZE THEN RetErr(ErrSegment)
    ELSE LET Prepend(r) == (IF r.panic \/ r.err # NoErr THEN r
                            ELSE [r EXCEPT !.out = rnd \o @]) @@ [rnd |-> rnd]
         IN  Prepend(CFBLast(xk, plainText, s,
                             Loop("CFB", [xk |-> xk, data |-> plainText, s |-> s,
                                          decrypt |-> TRUE],
                                  BlockLoopStart([iv |-> rnd, regs |-> <<>>]),
                                  Len(plainText) + 1)))

EncryptCFB(xk, plainText, s, rnd) ==
    IF s < 1 \/ s > BLOCK_SIZE THEN RetErr(ErrSegment)
    ELSE LET Prepend(r) == (IF r.panic \/ r.err # NoErr THEN r
                            ELSE [r EXCEPT !.out = rnd \o @]) @@ [rnd |-> rnd]
         IN  Prepend(CFBLast(xk, plainText, s,
                             Loop("CFB", [xk |-> xk, data |-> plainText, s |-> s,
                                          decrypt |-> FALSE],
                                  BlockLoopStart([iv |-> rnd, regs |-> <<>>]), Len(plainText) + 1)))

\* a DecryptCFB that takes the IV off the input before it looks at s
DecryptCFBSlicesFirst(xk, cipherText, s) ==
    IF ~SliceOK(cipherText, 0, IV_SIZE) THEN Panic
    ELSE IF s < 1 \/ s > BLOCK_SIZE THEN RetErr(ErrSegment)
    ELSE CFBLast(xk, SliceFrom(cipherText, IV_SIZE), s,
                 Loop("CFB", [xk |-> xk, data |-> SliceFrom(cipherText, IV_SIZE), s |-> s,
                              decrypt |-> TRUE],
                      BlockLoopStart([iv |-> Slice(cipherText, 0, IV_SIZE),
                                      regs |-> <<>>]),
                      Len(cipherText) + 1))

\* a shift register fed with the output segments, as in EncryptCFB
DecryptCFBFeedsOutput(xk, cipherText, s) ==
    IF s < 1 \/ s > BLOCK_SIZE THEN RetErr(ErrSegment)
    ELSE IF ~SliceOK(cipherText, 0, IV_SIZE) THEN Panic
    ELSE CFBLast(xk, SliceFrom(cipherText, IV_SIZE), s,
                 Loop("CFB", [xk |-> xk, data |-> SliceFrom(cipherText, IV_SIZE), s |-> s,
                              decrypt |-> FALSE],
                      BlockLoopStart([iv |-> Slice(cipherText, 0, IV_SIZE),
                                      regs |-> <<>>]),
                      Len(cipherText) + 1))

DecryptCFB(xk, cipherText, s) ==
    IF s < 1 \/ s > BLOCK_SIZE THEN RetErr(ErrSegment)
    ELSE IF ~SliceOK(cipherText, 0, IV_SIZE) THEN Panic
    ELSE CFBLast(xk, SliceFrom(cipherText, IV_SIZE), s,
                 Loop("CFB", [xk |-> xk, data |-> SliceFrom(cipherText, IV_SIZE), s |-> s,
                              decrypt |-> TRUE],
                      BlockLoopStart([iv |-> Slice(cipherText, 0, IV_SIZE),
                                      regs |-> <<>>]),
                      Len(cipherText) + 1))

\* one pass of "for i = 0; i < len(data)-lastLen; i += BLOCK_SIZE" of
\* EncryptOFB and DecryptOFB, which differ in the IV's origin only
OFBBody(env, st) ==
    IF st.i >= Len(env.data) - (Len(env.data) % BLOCK_SIZE) THEN [st EXCEPT !.done = TRUE]
    ELSE LET Put(r) ==
                 IF r.err # NoErr THEN BlockLoopFail(st, r)
                 ELSE IF ~SliceOK(env.data, st.i, st.i + BLOCK_SIZE)
                      THEN [st EXCEPT !.panic = TRUE, !.done = TRUE]
                 ELSE [st EXCEPT !.acc = @ \o GxorBlocks(
                                             Slice(env.data, st.i, st.i + BLOCK_SIZE), r.out),
                                 !.iv = r.out,
                                 !.i = @ + BLOCK_SIZE]
         IN  Put(EncryptBlock(env.xk, st.iv))

\* the part after a keystream loop, shared by OFB and CTR: the last
\* len(data) % BLOCK_SIZE bytes under the keystream slice lastEncIV[:lastLen];
\* the result carries the lengths of the two
StreamLast(xk, data, st) ==
    IF st.panic \/ st.err # NoErr THEN BlockLoopRet(st)
    ELSE LET lastLen == Len(data) % BLOCK_SIZE
             Put(r) ==
                 IF r.err # NoErr THEN RetErr(r.err)
                 ELSE IF ~SliceOK(data, st.i, Len(data)) \/ ~SliceOK(r.out, 0, lastLen)
                         \/ GxorBlocksPanics(SliceFrom(data, st.i), Slice(r.out, 0, lastLen))
                      THEN Panic
                 ELSE Ret(st.acc \o GxorBlocks(SliceFrom(data, st.i),
                                               Slice(r.out, 0, lastLen)))
                      @@ [lastData |-> Len(data) - st.i, lastKey |-> lastLen]
         IN  Put(EncryptBlock(xk, st.iv))

\* an output without the IV in front
EncryptOFBNoPrefix(xk, plainText, rnd) ==
    StreamLast(xk, plainText,
               Loop("OFB", [xk |-> xk, data |-> plainText],
                    BlockLoopStart([iv |-> rnd]), Len(plainText) + 1)) @@ [rnd |-> rnd]

EncryptOFB(xk, plainText, rnd) ==
    LET Prepend(r) == (IF r.panic \/ r.err # NoErr THEN r
                       ELSE [r EXCEPT !.out = rnd \o @]) @@ [rnd |-> rnd]
    IN  Prepend(StreamLast(xk, plainText,
                           Loop("OFB", [xk |-> xk, data |-> plainText],
                                BlockLoopStart([iv |-> rnd]), Len(plainText) + 1)))

DecryptOFB(xk, cipherText) ==
    IF ~SliceOK(cipherText, 0, IV_SIZE) THEN Panic
    ELSE StreamLast(xk, SliceFrom(cipherText, IV_SIZE),
                    Loop("OFB", [xk |-> xk, data |-> SliceFrom(cipherText, IV_SIZE)],
                         BlockLoopStart([iv |-> Slice(cipherText, 0, IV_SIZE)]),
                         Len(cipherText) + 1))

\* ------------------------------------------------------------------------
\* package counter
\* ------------------------------------------------------------------------
NewCounter == Zeros(COUNTER_SIZE)

\* "for i := COUNTER_SIZE-1; i >= 0; i-- { c.Bytes[i]++; if != 0 break }"
RECURSIVE IncrementFrom(_, _)
IncrementFrom(ctr, i) ==
    IF i < 0 THEN ctr
    ELSE IF (At(ctr, i) + 1) % 256 # 0 THEN [ctr EXCEPT ![i + 1] = (@ + 1) % 256]
    ELSE IncrementFrom([ctr EXCEPT ![i + 1] = 0], i - 1)

\* an increment of the last byte that carries nowhere
IncrementNoCarry(ctr) == [ctr EXCEPT ![COUNTER_SIZE] = (@ + 1) % 256]

Increment(ctr) == IncrementFrom(ctr, COUNTER_SIZE - 1)

\* ------------------------------------------------------------------------
\* package aes256go: CTR
\* ------------------------------------------------------------------------
\* one pass of "for i = 0; i < len(data)-lastLen; i += BLOCK_SIZE" of
\* coreBlockCTR; st.ctr is the caller's counter, st.iv the inputBlock and
\* st.inputs the blocks handed to EncryptBlock so far
CTRBody(env, st) ==
    IF st.i >= Len(env.data) - (Len(env.data) % BLOCK_SIZE) THEN [st EXCEPT !.done = TRUE]
    ELSE LET Put(r, next) ==
                 IF r.err # NoErr
                 THEN [BlockLoopFail(st, r) EXCEPT !.inputs = Append(@, st.iv)]
                 ELSE IF ~SliceOK(env.data, st.i, st.i + BLOCK_SIZE)
                      THEN [st EXCEPT !.panic = TRUE, !.done = TRUE,
                                      !.inputs = Append(@, st.iv)]
                 ELSE [st EXCEPT !.acc = @ \o GxorBlocks(
                                             Slice(env.data, st.i, st.i + BLOCK_SIZE), r.out),
                                 !.ctr = next,
                                 !.iv = env.nonce \o next,
                                 !.inputs = Append(@, st.iv),
                                 !.i = @ + BLOCK_SIZE]
         IN  Put(EncryptBlock(env.xk, st.iv), Increment(st.ctr))

\* isNil tells a nil data slice from an empty one; the result carries the
\* counter the caller holds afterwards, whether the output slice is nil, and
\* inputs, the blocks handed to EncryptBlock in order (the last of them by
\* the call after the loop)
coreBlockCTR(xk, data, isNil, nonce, ctr) ==
    IF Len(nonce) # NONCE_SIZE
    THEN RetErr(ErrNonce) @@ [ctr |-> ctr, isNil |-> TRUE, inputs |-> <<>>]
    ELSE IF isNil THEN Ret(<<>>) @@ [ctr |-> ctr, isNil |-> TRUE, inputs |-> <<>>]
    ELSE LET Out(r, st) ==
                 r @@ [ctr |-> st.ctr,
                       isNil |-> r.panic \/ r.err # NoErr \/ Len(r.out) = 0,
                       inputs |-> IF st.panic \/ st.err # NoErr THEN st.inputs
                                  ELSE Append(st.inputs, st.iv)]
         IN  CHOOSE res \in
                 {Out(StreamLast(xk, data, st), st) :
                  st \in {Loop("CTR", [xk |-> xk, data |-> data, nonce |-> nonce],
                               BlockLoopStart([iv |-> nonce \o ctr, ctr |-> ctr,
                                               inputs |-> <<>>]),
                               Len(data) + 1)}} : TRUE

\* a counter that starts at one
EncryptCTRFromOne(xk, plainText, isNil, rnd) ==
    LET Prepend(r) == (IF r.panic \/ r.err # NoErr THEN r
                       ELSE [r EXCEPT !.out = rnd \o @]) @@ [rnd |-> rnd]
    IN  Prepend(coreBlockCTR(xk, plainText, isNil, rnd, Increment(NewCounter)))

EncryptCTR(xk, plainText, isNil, rnd) ==
    LET Prepend(r) == (IF r.panic \/ r.err # NoErr THEN r
                       ELSE [r EXCEPT !.out = rnd \o @]) @@ [rnd |-> rnd]
    IN  Prepend(coreBlockCTR(xk, plainText, isNil, rnd, NewCounter))

\* a counter that starts at one
DecryptCTRFromOne(xk, cipherText) ==
    IF ~SliceOK(cipherText, 0, NONCE_SIZE) THEN Panic
    ELSE coreBlockCTR(xk, SliceFrom(cipherText, NONCE_SIZE), FALSE,
                      Slice(cipherText, 0, NONCE_SIZE), Increment(NewCounter))

DecryptCTR(xk, cipherText) ==
    IF ~SliceOK(cipherText, 0, NONCE_SIZE) THEN Panic
    ELSE coreBlockCTR(xk, SliceFrom(cipherText, NONCE_SIZE), FALSE,
                      Slice(cipherText, 0, NONCE_SIZE), NewCounter)

\* ------------------------------------------------------------------------
\* package galois: block operations
\* ------------------------------------------------------------------------
\* one pass of the body of "for i < 16 { for j < 8 {" of GmulBlocks, the two
\* loop indices folded into st.n = 8 * i + j; env.x and env.y are the arguments
GmulBlocksBody(env, st) ==
    IF st.n >= 16 * 8 THEN [st EXCEPT !.done = TRUE]
    ELSE LET i == st.n \div 8
             j == st.n % 8
         IN  IF And(Shr(At(env.y, i), j), 1) = 1
             THEN [st EXCEPT !.prod = Bytes([k \in 1..BLOCK_SIZE |->
                                               Gadd(st.prod[k],
                                                    At(env.x, (i + (k - 1)) % 16))]),
                             !.n = @ + 1]
             ELSE [st EXCEPT !.n = @ + 1]

GmulBlocks(x, y) ==
    Loop("GmulBlocks", [x |-> x, y |-> y],
         [prod |-> Zeros(BLOCK_SIZE), n |-> 0, done |-> FALSE], 16 * 8).prod

\* one pass of "for i := 0; i < len(x); i += BLOCK_SIZE" of Ghash
GhashBody(env, st) ==
    IF st.i >= Len(env.x) THEN [st EXCEPT !.done = TRUE]
    ELSE [st EXCEPT !.hash = GmulBlocks(GxorBlocks(Slice(env.x, st.i, st.i + BLOCK_SIZE),
                                                   st.hash), env.h),
                    !.i = @ + BLOCK_SIZE]

\* an accumulator that starts at h
GhashFromH(x, h) ==
    Loop("Ghash", [x |-> x, h |-> h],
         [hash |-> h, i |-> 0, done |-> FALSE], Len(x) + 1).hash

Ghash(x, h) ==
    Loop("Ghash", [x |-> x, h |-> h],
         [hash |-> Zeros(BLOCK_SIZE), i |-> 0, done |-> FALSE], Len(x) + 1).hash

\* ------------------------------------------------------------------------
\* package aes256go: GCM
\* ------------------------------------------------------------------------
\* binary.BigEndian.PutUint64 of a length; lengths stay below 2^31, so the
\* four high bytes are zero
PutUint64(n) ==
    Bytes([i \in 1..8 |-> IF i <= 4 THEN 0 ELSE (n \div (256 ^ (8 - i))) % 256])

\* 16*int(math.Ceil(float64(8*n)/128.0)) - n
GMACPadLen(n) == 16 * ((8 * n + 127) \div 128) - n

\* spare holds the bytes that follow cipherData in its backing array (its
\* capacity beyond its length); "append(cipherData, cipherPadding...)" writes
\* the padding there when it fits.  The result carries spare as left behind,
\* hashSubKey, hashData (the bytes handed to Ghash), s (what Ghash returned)
\* and maskInputs, the blocks coreBlockCTR handed to EncryptBlock.
GMAC(xk, cipherData, spare, authData, nonce) ==
    IF Len(nonce) # NONCE_SIZE
    THEN RetErr(ErrNonce) @@ [spare |-> spare, maskInputs |-> <<>>]
    ELSE LET preCtr == Increment(NewCounter)
             cipherPadding == Zeros(GMACPadLen(Len(cipherData)))
             authPadding == Zeros(GMACPadLen(Len(authData)))
             lenC == PutUint64(Len(cipherData))
             lenA == PutUint64(Len(authData))
             paddedAuth == authData \o authPadding
             paddedCipher == cipherData \o cipherPadding
             totalLen == lenA \o lenC
             hashData == (paddedAuth \o paddedCipher) \o totalLen
             spareAfter == IF Len(cipherPadding) <= Len(spare)
                           THEN cipherPadding \o SliceFrom(spare, Len(cipherPadding))
                           ELSE spare
             Trunc(tag) ==
                 (IF tag.panic \/ tag.err # NoErr
                  THEN [k \in {"out", "err", "panic"} |-> tag[k]]
                  ELSE IF ~SliceOK(tag.out, 0, TAG_SIZE) THEN Panic
                  ELSE Ret(Slice(tag.out, 0, TAG_SIZE)))
                 @@ [spare |-> spareAfter, hashData |-> hashData,
                     maskInputs |-> tag.inputs]
         IN  CHOOSE res \in
                 {IF hashSubKey.err # NoErr
                  THEN RetErr(hashSubKey.err) @@ [spare |-> spare, maskInputs |-> <<>>]
                  ELSE CHOOSE t \in
                           {Trunc(coreBlockCTR(xk, s, FALSE, nonce, preCtr))
                                @@ [hashSubKey |-> hashSubKey.out, s |-> s] :
                            s \in {Ghash(hashData, hashSubKey.out)}} : TRUE :
                  hashSubKey \in {EncryptBlock(xk, Zeros(BLOCK_SIZE))}} : TRUE

EncryptGCM(xk, plainText, isNil, authData, rnd) ==
    LET Join(ct, tag) ==
            IF tag.panic \/ tag.err # NoErr
            THEN [k \in {"out", "err", "panic"} |-> tag[k]]
            ELSE Ret((rnd \o ct.out) \o tag.out) @@ [maskInputs |-> tag.maskInputs]
    IN  CHOOSE res \in
            {(IF ct.panic \/ ct.err # NoErr THEN [k \in {"out", "err", "panic"} |-> ct[k]]
              ELSE Join(ct, GMAC(xk, ct.out, <<>>, authData, rnd)))
                 @@ [rnd |-> rnd, inputs |-> ct.inputs, ctr |-> ct.ctr] :
             ct \in {coreBlockCTR(xk, plainText, isNil, rnd, Increment(NewCounter))}} : TRUE

\* DecryptGCM up to and including the call of GMAC: the locals nonce, tag,
\* the re-sliced cipherText and testTag (out), and the caller's buffer as
\* GMAC leaves it
DecryptGCMAuth(xk, cipherText, authData) ==
    IF Len(cipherText) < NONCE_SIZE + TAG_SIZE
    THEN Panic @@ [nonce |-> <<>>, tag |-> <<>>, cipherText |-> <<>>, buf |-> cipherText,
                   maskInputs |-> <<>>]
    ELSE LET nonce == Slice(cipherText, 0, NONCE_SIZE)
             tag == SliceFrom(cipherText, Len(cipherText) - TAG_SIZE)
             body == Slice(cipherText, NONCE_SIZE, Len(cipherText) - TAG_SIZE)
             Locals(testTag) ==
                 [out |-> testTag.out, err |-> testTag.err, panic |-> testTag.panic,
                  nonce |-> nonce, tag |-> tag, cipherText |-> body,
                  buf |-> (nonce \o body) \o testTag.spare,
                  maskInputs |-> testTag.maskInputs]
         IN  Locals(GMAC(xk, body, tag, authData, nonce))

\* a comparison that looks at the first byte of the two tags only
DecryptGCMTagOKFirstByte(tag, testTag) == At(tag, 0) = At(testTag, 0)

\* "if !bytes.Equal(tag, testTag)"
DecryptGCMTagOK(tag, testTag) == tag = testTag

\* a counter that is left at zero: "ctr.Increment()" forgotten
DecryptGCMCtrNotIncremented == NewCounter

\* "ctr := counter.NewCounter(); ctr.Increment()" of DecryptGCM
DecryptGCMCtr == Increment(NewCounter)

\* the rest of DecryptGCM after a successful comparison
DecryptGCMCore(xk, cipherText, nonce) ==
    LET Out(r) == [k \in {"out", "err", "panic", "isNil", "inputs", "ctr"} |-> r[k]]
    IN  Out(coreBlockCTR(xk, cipherText, FALSE, nonce, DecryptGCMCtr))

DecryptGCM(xk, cipherText, authData) ==
    CHOOSE res \in
        {(IF au.panic THEN Panic @@ [isNil |-> TRUE]
          ELSE IF au.err # NoErr THEN RetErr(au.err) @@ [isNil |-> TRUE]
          ELSE IF ~DecryptGCMTagOK(au.tag, au.out) THEN RetErr(ErrAuth) @@ [isNil |-> TRUE]
          ELSE DecryptGCMCore(xk, au.cipherText, au.nonce))
             @@ [buf |-> au.buf, maskInputs |-> au.maskInputs] :
         au \in {DecryptGCMAuth(xk, cipherText, authData)}} : TRUE

\* ------------------------------------------------------------------------
\* package aes256go: construction
\* ------------------------------------------------------------------------
newExpKey(k) == ExpandKey(k)

\* a ClearKey that leaves the round keys alone
ClearKeyOnlyKey(a) == [a EXCEPT !.Key = Zeros(Len(@))]

\* "for i := range a.Key { a.Key[i] = 0x00 }" and the same over expandedKey
ClearKey(a) == [a EXCEPT !.Key = Zeros(Len(@)), !.expandedKey = Zeros(Len(@))]

\* a constructor that takes the key as it is
NewAES256Unhashed(k) ==
    LET none(e) == [Key |-> <<>>, expandedKey |-> <<>>, err |-> e, isNil |-> TRUE]
        Make(xk) ==
            IF xk.err # NoErr THEN none(xk.err)
            ELSE [Key |-> k, expandedKey |-> xk.out, err |-> NoErr, isNil |-> FALSE]
    IN  IF Len(k) # KEY_SIZE THEN none(ErrKeySize) ELSE Make(newExpKey(k))

\* the AES256 value NewAES256 returns: the key is hashed to KEY_SIZE bytes
\* and the hash expanded
NewAES256(k) ==
    LET none(e) == [Key |-> <<>>, expandedKey |-> <<>>, err |-> e, isNil |-> TRUE]
        Make(hashedKey, xk) ==
            IF xk.err # NoErr THEN none(xk.err)
            ELSE [Key |-> hashedKey, expandedKey |-> xk.out, err |-> NoErr,
                  isNil |-> FALSE]
    IN  CHOOSE a \in
            {IF Len(hashedKey) # KEY_SIZE THEN none(ErrKeySize)
             ELSE Make(hashedKey, newExpKey(hashedKey)) :
             hashedKey \in {newSHA256(k)}} : TRUE

\* ------------------------------------------------------------------------
\* the calls a session makes, by name
\* ------------------------------------------------------------------------
\* a table of package sbox as the 256 bytes it holds
SBoxBytes(sbox) == Bytes([i \in 1..256 |-> sbox[i - 1]])

\* the first call of a session, by name
Encrypt(m, xk, args, rnd) ==
    CASE m = "ECB" -> EncryptECB(xk, args.p, args.pad)
      [] m = "CBC" -> EncryptCBC(xk, args.p, args.pad, rnd)
      [] m = "CFB" -> EncryptCFB(xk, args.p, args.s, rnd)
      [] m = "OFB" -> EncryptOFB(xk, args.p, rnd)
      [] m = "CTR" -> EncryptCTR(xk, args.p, args.pNil, rnd)
      [] m = "GCM" -> EncryptGCM(xk, args.p, args.pNil, args.a, rnd)
      [] m = "GMAC" -> GMAC(xk, args.p, <<>>, args.a, rnd) @@ [rnd |-> rnd]
      [] m = "EncryptBlock" -> EncryptBlock(xk, args.p)
      [] m = "DecryptBlock" -> DecryptBlock(xk, args.p)
      [] m = "TestEncryptBlock" -> EncryptBlock(ExpandKey(args.p).out, Zeros(BLOCK_SIZE))
      [] m = "ExpandKey" -> ExpandKey(args.p)
      [] m \in {"InitSBOX", "InitInvSBOX"} ->
           Ret(SBoxBytes(InitSBOX)) @@ [steps |-> SBoxRun.ps, buf |-> SBoxBytes(SBoxRun.sbox)]
      [] m = "GmulBlocks" -> Ret(GmulBlocks(args.p, args.a))
      [] m = "Increment" -> Ret(Increment(args.p))
      [] m = "addRoundKey" -> addRoundKey(xk, args.p, args.s)
      [] m = "Rcon" -> Ret(<<Rcon(args.s)>>)
      [] m = "Gmul" ->
           Ret(<<Gmul(args.p[1], args.p[2]), Gadd(args.p[1], args.p[2]),
                 Gsub(args.p[1], args.p[2])>>)
               @@ [passes |-> GmulLoop(args.p[1], args.p[2], 0, 0).i]
      [] m = "coreBlockCTR" ->
           coreBlockCTR(xk, args.p, args.pNil, rnd, args.a) @@ [rnd |-> rnd]

\* the call that reverses (or repeats) the first; the unpadding handed to
\* DecryptECB and DecryptCBC is the one that belongs to the padding of the
\* Encrypt call
Decrypt(m, xk, data, args, nonce) ==
    CASE m = "ECB" ->
           DecryptECB(xk, data, IF args.pad = "ZeroPadding" THEN "ZeroUnpadding"
                                ELSE "PKCS7Unpadding")
      [] m = "CBC" ->
           DecryptCBC(xk, data, IF args.pad = "ZeroPadding" THEN "ZeroUnpadding"
                                ELSE "PKCS7Unpadding")
      [] m = "CFB" -> DecryptCFB(xk, data, args.s)
      [] m = "OFB" -> DecryptOFB(xk, data)
      [] m = "CTR" -> DecryptCTR(xk, data)
      [] m = "GCM" -> DecryptGCM(xk, data, args.a)
      [] m = "GMAC" -> GMAC(xk, args.p, <<>>, args.a, nonce) @@ [rnd |-> nonce]
      [] m = "EncryptBlock" -> DecryptBlock(xk, data)
      [] m = "DecryptBlock" -> EncryptBlock(xk, data)
      [] m = "TestEncryptBlock" -> DecryptBlock(ExpandKey(args.p).out, data)
      [] m = "ExpandKey" -> ExpandKey(args.p)
      [] m = "InitSBOX" -> Ret(SBoxBytes(InitSBOX))
      [] m = "InitInvSBOX" -> Ret(SBoxBytes(InitInvSBOX([b \in Byte |-> At(data, b)])))
      [] m = "GmulBlocks" -> Ret(GmulBlocks(args.p, args.a))
      [] m = "Increment" -> Ret(Increment(data))
      [] m = "addRoundKey" -> addRoundKey(xk, data, args.s)
      [] m = "Rcon" -> Ret(<<Rcon(args.s)>>)
      [] m = "Gmul" ->
           \* the operands the other way round
           Ret(<<Gmul(args.p[2], args.p[1]), Gadd(args.p[2], args.p[1]),
                 Gsub(args.p[2], args.p[1])>>)
               @@ [passes |-> GmulLoop(args.p[2], args.p[1], 0, 0).i]
      [] m = "coreBlockCTR" -> coreBlockCTR(xk, data, FALSE, nonce, args.a)

\* ------------------------------------------------------------------------
\* the loops
\* ------------------------------------------------------------------------
\* one pass of the body of the loop named kind
LoopBody(kind, env, st) ==
    CASE kind = "ExpandKey" -> ExpandBody(st)
      [] kind = "Then" -> ThenBody(env, st)
      [] kind = "sha256Schedule" -> sha256ScheduleStep(st)
      [] kind = "sha256Round" -> sha256Round(env, st)
      [] kind = "ECB" -> ECBBody(env, st)
      [] kind = "EncryptCBC" -> EncryptCBCBody(env, st)
      [] kind = "DecryptCBC" -> DecryptCBCBody(env, st)
      [] kind = "CFB" -> CFBBody(env, st)
      [] kind = "OFB" -> OFBBody(env, st)
      [] kind = "CTR" -> CTRBody(env, st)
      [] kind = "GmulBlocks" -> GmulBlocksBody(env, st)
      [] kind = "Ghash" -> GhashBody(env, st)
      [] kind = "Encrypt" ->
           [res |-> Encrypt(env.m, env.xk, env.args, env.rnd), done |-> TRUE]
      [] kind = "Decrypt" ->
           [res |-> Decrypt(env.m, env.xk, env.data, env.args, env.nonce), done |-> TRUE]

\* n passes, split in halves to keep the evaluation shallow
Loop(kind, env, st, n) ==
    IF n = 0 \/ st.done THEN st
    ELSE IF n = 1 THEN LoopBody(kind, env, st)
    ELSE Loop(kind, env, Loop(kind, env, st, n \div 2), n - (n \div 2))

\* ------------------------------------------------------------------------
\* A session with the library: a cipher is built from a user's key, one
\* message is encrypted, the result travels to the receiver (and may be
\* tampered with on the way) and is decrypted on the same cipher.
\* ------------------------------------------------------------------------
VARIABLES
    pc,        \* position in the session
    userKey,   \* the key handed to NewAES256
    cipher,    \* the value NewAES256 returned
    mode,      \* the mode of operation the session uses
    msg,       \* the arguments of the Encrypt call
    encRes,    \* what the Encrypt call returned
    wire,      \* the bytes handed to the Decrypt call
    aadRecv,   \* the associated data handed to DecryptGCM
    tamper,    \* what was changed in transit
    dg,        \* the locals of a running DecryptGCM
    decRes     \* what the Decrypt call returned

vars == <<pc, userKey, cipher, mode, msg, encRes, wire, aadRecv, tamper, dg, decRes>>

\* the largest number of whole 16-byte blocks in a plaintext
MaxBlocks == 1

\* message bytes: d = 0 gives zero bytes, d = 64 a zero in every fourth place
Fill(n, d) == Bytes([i \in 1..n |-> (d * i) % 256])

\* lengths around the block boundaries: empty, one byte, and one byte less
\* than, exactly, and one byte more than each whole number of blocks
Lengths ==
    {0, 1} \cup UNION {{BLOCK_SIZE * b - 1, BLOCK_SIZE * b, BLOCK_SIZE * b + 1} :
                       b \in 1..MaxBlocks}

\* what rand.Reader delivers for a buffer of n bytes
Rand(n) == {Fill(n, 11)}

\* []byte("supersecretkeythathastobe32bytes"), the key the test program uses
genericKey ==
    <<115, 117, 112, 101, 114, 115, 101, 99, 114, 101, 116, 107, 101, 121, 116, 104,
      97, 116, 104, 97, 115, 116, 111, 98, 101, 51, 50, 98, 121, 116, 101, 115>>

UserKeys == {<<132>>, genericKey}

NoCipher == [Key |-> <<>>, expandedKey |-> <<>>, err |-> NoErr, isNil |-> TRUE]
NoMsg == [p |-> <<>>, pNil |-> TRUE, a |-> <<>>, aNil |-> TRUE, s |-> 0, pad |-> "none"]
NoRes == [out |-> <<>>, err |-> NoErr, panic |-> FALSE, isNil |-> TRUE]
\* what a call leaves behind besides its results: the lengths of the last
\* segment and of the keystream slice it was combined with, the bytes of the
\* caller's input slice afterwards, the random bytes read, the values of
\* the CFB shift register at the calls of EncryptBlock, the round
\* transforms a block call made with the round of each, ExpandKey's offset
\* c and whether one of its byte expressions wrapped, the passes of Gmul's
\* loop, GMAC's hash
\* subkey, the bytes it handed to Ghash and what Ghash returned, the blocks
\* handed to EncryptBlock for the data (inputs) and for the tag
\* (maskInputs), and the caller's counter afterwards
Locals(r) ==
    [k \in {"lastData", "lastKey", "buf", "rnd", "hashSubKey", "hashData", "s",
            "inputs", "maskInputs", "ctr", "regs", "steps", "c", "wrapped",
            "passes"} |->
        IF k \in DOMAIN r THEN r[k]
        ELSE IF k \in {"lastData", "lastKey"} THEN 0 ELSE <<>>]
NoDG == [tag |-> <<>>, testTag |-> <<>>, nonce |-> <<>>, cipherText |-> <<>>,
         compared |-> FALSE, ctrRan |-> FALSE, ctr0 |-> <<>>,
         enc |-> Locals(NoRes), dec |-> Locals(NoRes)]

\* a result with the nil-ness of its slice made explicit
WithNil(r) ==
    [out |-> r.out, err |-> r.err, panic |-> r.panic,
     isNil |-> r.panic \/ r.err # NoErr \/ Len(r.out) = 0]

Start(keys) ==
    /\ pc = "start"
    /\ userKey \in keys
    /\ cipher = NoCipher
    /\ mode = "none"
    /\ msg = NoMsg
    /\ encRes = NoRes
    /\ wire = <<>>
    /\ aadRecv = <<>>
    /\ tamper = "none"
    /\ dg = NoDG
    /\ decRes = NoRes

\* a, err := aes256go.NewAES256(key)
New ==
    /\ pc = "start"
    /\ \E a \in {NewAES256(userKey)} :
          /\ cipher' = a
          /\ pc' = IF a.err = NoErr THEN "ready" ELSE "failed"
    /\ UNCHANGED <<userKey, mode, msg, encRes, wire, aadRecv, tamper, dg, decRes>>

\* the Encrypt call returned: its output goes on the wire
Sent(m, args, r) ==
    /\ mode' = m
    /\ msg' = args
    /\ encRes' = WithNil(r)
    /\ wire' = r.out
    /\ aadRecv' = args.a
    /\ pc' = IF r.panic \/ r.err # NoErr THEN "failed" ELSE "sent"
    /\ dg' = [dg EXCEPT !.enc = Locals(r)]
    /\ UNCHANGED <<userKey, cipher, tamper, decRes>>

\* the Decrypt call returned
Received(r) ==
    /\ decRes' = r
    /\ pc' = "done"
    /\ UNCHANGED <<userKey, cipher, mode, msg, encRes, wire, aadRecv, tamper>>

\* ------------------------------------------------------------------------
\* GCM sessions
\* ------------------------------------------------------------------------
\* the single-bit masks a tamperer applies to a byte: lowest and highest bit
FlipMasks == {1, 128}

\* the bytes of an EncryptGCM output a tamperer touches: the first and the
\* last byte of the nonce, of the ciphertext body and of the tag
FlipPositions(w) ==
    {1, NONCE_SIZE, NONCE_SIZE + 1, Len(w) - TAG_SIZE, Len(w) - TAG_SIZE + 1, Len(w)}
        \cap (1..Len(w))

\* the bytes of the associated data a tamperer touches: the first and the last
FlipAuthPositions(ad) == {1, Len(ad)} \cap (1..Len(ad))

\* plaintexts of a GCM session: nil, and one of each length
GCMPlain ==
    {[p |-> <<>>, pNil |-> TRUE]} \cup {[p |-> Fill(n, 37), pNil |-> FALSE] : n \in Lengths}

\* associated data: nil, empty, a few bytes, more than a block
GCMAuthData ==
    {[a |-> <<>>, aNil |-> TRUE], [a |-> <<>>, aNil |-> FALSE],
     [a |-> Fill(3, 9), aNil |-> FALSE], [a |-> Fill(BLOCK_SIZE + 1, 9), aNil |-> FALSE]}

\* cipherText, err := a.EncryptGCM(plainText, authData)
CallEncryptGCM ==
    /\ pc = "ready"
    /\ \E pt \in GCMPlain, ad \in GCMAuthData, rnd \in Rand(NONCE_SIZE) :
          \E r \in {EncryptGCM(cipher.expandedKey, pt.p, pt.pNil, ad.a, rnd)} :
             Sent("GCM", [NoMsg EXCEPT !.p = pt.p, !.pNil = pt.pNil,
                                       !.a = ad.a, !.aNil = ad.aNil], r)

\* one bit of the EncryptGCM output is flipped in transit
TamperWire ==
    /\ pc = "sent"
    /\ mode = "GCM"
    /\ tamper = "none"
    /\ \E i \in FlipPositions(wire), m \in FlipMasks :
          wire' = [wire EXCEPT ![i] = Xor(@, m)]
    /\ tamper' = "wire"
    /\ UNCHANGED <<pc, userKey, cipher, mode, msg, encRes, aadRecv, dg, decRes>>

\* one bit of the associated data is flipped in transit
TamperAuthData ==
    /\ pc = "sent"
    /\ mode = "GCM"
    /\ tamper = "none"
    /\ \E i \in FlipAuthPositions(aadRecv), m \in FlipMasks :
          aadRecv' = [aadRecv EXCEPT ![i] = Xor(@, m)]
    /\ tamper' = "aad"
    /\ UNCHANGED <<pc, userKey, cipher, mode, msg, encRes, wire, dg, decRes>>

\* DecryptGCM from its entry to the return of GMAC
DecryptGCMStepAuth ==
    /\ pc = "sent"
    /\ mode = "GCM"
    /\ \E au \in {DecryptGCMAuth(cipher.expandedKey, wire, aadRecv)} :
           IF au.panic \/ au.err # NoErr
           THEN /\ Received(WithNil([out |-> <<>>, err |-> au.err, panic |-> au.panic]))
                /\ dg' = dg
           ELSE /\ dg' = [dg EXCEPT !.tag = au.tag, !.testTag = au.out, !.nonce = au.nonce,
                                    !.cipherText = au.cipherText]
                /\ pc' = "auth"
                /\ UNCHANGED <<userKey, cipher, mode, msg, encRes, wire, aadRecv, tamper,
                               decRes>>

\* DecryptGCM at "if !bytes.Equal(tag, testTag) { return nil, errors.New(...) }"
DecryptGCMStepCompare ==
    /\ pc = "auth"
    /\ IF DecryptGCMTagOK(dg.tag, dg.testTag)
       THEN /\ pc' = "core"
            /\ dg' = [dg EXCEPT !.compared = TRUE]
            /\ UNCHANGED <<userKey, cipher, mode, msg, encRes, wire, aadRecv, tamper, decRes>>
       ELSE /\ Received(WithNil(RetErr(ErrAuth)))
            /\ dg' = [dg EXCEPT !.compared = TRUE]

\* DecryptGCM from the counter's construction to its return
DecryptGCMStepCore ==
    /\ pc = "core"
    /\ \E r \in {DecryptGCMCore(cipher.expandedKey, dg.cipherText, dg.nonce)} : Received(r)
    /\ dg' = [dg EXCEPT !.ctrRan = TRUE, !.ctr0 = DecryptGCMCtr]

InitGCM == Start(UserKeys)

NextGCM ==
    \/ New
    \/ CallEncryptGCM
    \/ TamperWire
    \/ TamperAuthData
    \/ DecryptGCMStepAuth
    \/ DecryptGCMStepCompare
    \/ DecryptGCMStepCore

SpecGCM == InitGCM /\ [][NextGCM]_vars

\* C1: whatever the key, the plaintext (nil, empty, whole blocks, a partial
\* last block) and the associated data (nil, empty, non-empty), EncryptGCM
\* succeeds and DecryptGCM of its untouched output with the same associated
\* data on the same cipher returns exactly the plaintext and no error.
C1_GCMRoundTrip ==
    /\ (mode = "GCM" /\ pc \in {"sent", "auth", "core", "done"}) =>
          (encRes.err = NoErr /\ ~encRes.panic)
    /\ (mode = "GCM" /\ pc = "done" /\ tamper = "none") =>
          (decRes.out = msg.p /\ decRes.err = NoErr /\ ~decRes.panic)

C1_Witness ==
    /\ mode = "GCM" /\ pc = "done" /\ tamper = "none"
    /\ Len(msg.p) = BLOCK_SIZE + 1
    /\ Len(msg.a) > 0
    /\ decRes.out = msg.p
    /\ decRes.err = NoErr

\* C2: whatever the key, the plaintext and the associated data, after one
\* bit of the EncryptGCM output (nonce, ciphertext body or tag) or one bit of
\* the associated data was flipped, DecryptGCM returns the authentication
\* failure error and no plaintext.
C2_TamperDetected ==
    (mode = "GCM" /\ pc = "done" /\ tamper # "none") =>
        (decRes.err = ErrAuth /\ decRes.isNil /\ decRes.out = <<>>)

\* C3: DecryptGCM fails closed.  Once the supplied tag and the recomputed
\* tag have been compared and differ, DecryptGCM has returned nil and the
\* authentication error and CTR decryption has not run; and CTR decryption
\* runs only after the comparison was made and found all 16 bytes equal,
\* with its counter starting at 1.
C3_FailClosed ==
    /\ (dg.compared /\ dg.tag # dg.testTag) =>
          /\ pc = "done"
          /\ decRes.isNil /\ decRes.out = <<>>
          /\ decRes.err = ErrAuth
          /\ ~dg.ctrRan
    /\ dg.ctrRan =>
          /\ dg.compared
          /\ Len(dg.tag) = TAG_SIZE
          /\ dg.tag = dg.testTag
          /\ dg.ctr0 = <<0, 0, 0, 1>>
    /\ pc = "core" => (dg.compared /\ dg.tag = dg.testTag)

C3_Witness ==
    /\ mode = "GCM" /\ pc = "done"
    /\ dg.compared
    /\ dg.tag # dg.testTag
    /\ decRes.err = ErrAuth
    /\ ~dg.ctrRan

\* ------------------------------------------------------------------------
\* the product of two blocks in the field GCM uses (NIST SP 800-38D,
\* algorithm 1): bit 0 of a block is the highest bit of its first byte, and
\* R = 0xe1 followed by 15 zero bytes
\* ------------------------------------------------------------------------
\* one bit of x: st.z collects the product, st.v is y times the i-th power
GF128Body(x, st) ==
    LET xi == And(Shr(At(x, st.i \div 8), 7 - (st.i % 8)), 1)
        shifted == [k \in 1..BLOCK_SIZE |->
                       Shr(st.v[k], 1) + (IF k > 1 THEN 128 * (st.v[k - 1] % 2) ELSE 0)]
        reduced == IF st.v[BLOCK_SIZE] % 2 = 1
                   THEN [shifted EXCEPT ![1] = Xor(@, 225)] ELSE shifted
    IN  [z |-> IF xi = 1 THEN GxorBlocks(st.z, st.v) ELSE st.z,
         v |-> Bytes(reduced), i |-> st.i + 1]

RECURSIVE GF128Loop(_, _, _)
GF128Loop(x, st, n) ==
    IF n = 0 \/ st.i >= 8 * BLOCK_SIZE THEN st
    ELSE IF n = 1 THEN GF128Body(x, st)
    ELSE GF128Loop(x, GF128Loop(x, st, n \div 2), n - (n \div 2))

GF128Mul(x, y) == GF128Loop(x, [z |-> Zeros(BLOCK_SIZE), v |-> y, i |-> 0], 8 * BLOCK_SIZE).z

\* ------------------------------------------------------------------------
\* sessions of the other calls: one call, then the call that reverses it
\* (for a call without a reverse: the same call again)
\* ------------------------------------------------------------------------
Modes ==
    {"ECB", "CBC", "CFB", "OFB", "CTR", "GCM", "GMAC", "EncryptBlock", "DecryptBlock",
     "TestEncryptBlock", "ExpandKey", "InitSBOX", "InitInvSBOX", "GmulBlocks",
     "Increment", "coreBlockCTR", "addRoundKey", "Rcon", "Gmul"}

\* published AES-256 known answers for the all-zero block (NIST AESAVS,
\* variable-key test): the keys 00..00, 80 00..00 and c0 00..00 with the
\* ciphertext of each
TestVectors ==
    {[key |-> Zeros(KEY_SIZE),
      enc |-> <<220, 149, 192, 120, 162, 64, 137, 137, 173, 72, 162, 20, 146, 132, 32, 135>>],
     [key |-> <<128>> \o Zeros(KEY_SIZE - 1),
      enc |-> <<227, 90, 109, 203, 25, 178, 1, 160, 30, 188, 250, 138, 162, 43, 87, 89>>],
     [key |-> <<192>> \o Zeros(KEY_SIZE - 1),
      enc |-> <<178, 145, 105, 205, 207, 45, 131, 232, 56, 18, 90, 18, 238, 106, 164, 0>>]}

\* the arguments of a session's first call; p is the plaintext, the block,
\* the key or the first factor, a the associated data or the second factor
ModeArgs(m) ==
    CASE m \in {"ECB", "CBC"} ->
           {[NoMsg EXCEPT !.p = Fill(n, d), !.pNil = FALSE, !.pad = pad] :
            n \in Lengths, d \in {0, 1, 64}, pad \in Pads}
      [] m = "CFB" ->
           {[NoMsg EXCEPT !.p = Fill(n, 37), !.pNil = FALSE, !.s = s] :
            n \in Lengths, s \in (0 - 1)..(BLOCK_SIZE + 1)}
      [] m \in {"OFB", "CTR"} ->
           {[NoMsg EXCEPT !.p = Fill(n, 37), !.pNil = FALSE] : n \in Lengths}
      [] m \in {"GCM", "GMAC"} ->
           {[NoMsg EXCEPT !.p = Fill(n, 37), !.pNil = FALSE, !.a = Fill(k, 9),
                          !.aNil = FALSE] : n \in Lengths, k \in {0, 3}}
      [] m \in {"EncryptBlock", "DecryptBlock"} ->
           {[NoMsg EXCEPT !.p = Fill(n, d), !.pNil = FALSE] : n \in Lengths, d \in {0, 37}}
      [] m = "TestEncryptBlock" ->
           {[NoMsg EXCEPT !.p = v.key, !.pNil = FALSE] : v \in TestVectors}
      [] m = "ExpandKey" ->
           {[NoMsg EXCEPT !.p = Fill(n, d), !.pNil = FALSE] :
            n \in {0, KEY_SIZE - 1, KEY_SIZE, KEY_SIZE + 1, EXP_KEY_SIZE}, d \in {0, 37}}
      [] m \in {"InitSBOX", "InitInvSBOX"} -> {NoMsg}
      [] m = "GmulBlocks" ->
           {[NoMsg EXCEPT !.p = x, !.pNil = FALSE, !.a = y, !.aNil = FALSE] :
            x \in {<<128>> \o Zeros(BLOCK_SIZE - 1), Fill(BLOCK_SIZE, 37)},
            y \in {<<128>> \o Zeros(BLOCK_SIZE - 1), <<3>> \o Zeros(BLOCK_SIZE - 1),
                   Fill(BLOCK_SIZE, 9)}}
      [] m = "Increment" ->
           \* counters at and around the carries, and where the counter wraps
           {[NoMsg EXCEPT !.p = c, !.pNil = FALSE] :
            c \in {NewCounter, <<0, 0, 0, 254>>, <<0, 0, 0, 255>>, <<0, 0, 255, 255>>,
                   <<0, 255, 255, 255>>, <<1, 2, 3, 4>>, <<127, 255, 255, 255>>,
                   <<255, 255, 255, 254>>, <<255, 255, 255, 255>>}}
      [] m = "addRoundKey" ->
           \* s is the round index
           {[NoMsg EXCEPT !.p = Fill(BLOCK_SIZE, 37), !.pNil = FALSE, !.s = r] :
            r \in {0, 1, NR - 1, NR, NR + 1, NR + 2, 255}}
      [] m = "Rcon" ->
           \* s is the index
           {[NoMsg EXCEPT !.s = i] : i \in (0..11) \cup {52}}
      [] m = "Gmul" ->
           \* p holds the two operands
           {[NoMsg EXCEPT !.p = <<a, b>>, !.pNil = FALSE] : a \in Byte, b \in {83}}
      [] m = "coreBlockCTR" ->
           \* a is the caller's counter on entry
           {[NoMsg EXCEPT !.p = Fill(n, 37), !.pNil = FALSE, !.a = c, !.aNil = FALSE] :
            n \in Lengths,
            c \in {NewCounter, <<0, 0, 0, 1>>, <<0, 0, 255, 255>>, <<255, 255, 255, 255>>}}

\* a session's call is made as a loop of one pass, so that the loops inside
\* the call are met as passes of the same Loop
CallEncrypt ==
    /\ pc = "ready"
    /\ \E m \in Modes :
          \E args \in ModeArgs(m),
             rnd \in Rand(IF m \in {"CTR", "GCM", "GMAC", "coreBlockCTR"} THEN NONCE_SIZE
                          ELSE IV_SIZE) :
             \E r \in {Loop("Encrypt", [m |-> m, xk |-> cipher.expandedKey, args |-> args,
                                          rnd |-> rnd], [done |-> FALSE], 1).res} :
                Sent(m, args, r)

\* bytes that no Encrypt call of this cipher produced reach a Decrypt call
Receive ==
    /\ pc = "ready"
    /\ \E m \in {"ECB", "CBC", "CFB", "OFB", "CTR", "GCM"} :
          \E args \in {a \in ModeArgs(m) :
                          a.p = <<>> /\ a.s \in {0 - 1, 0, 3, BLOCK_SIZE + 1}},
             n \in {0, NONCE_SIZE - 1, NONCE_SIZE, IV_SIZE - 1, IV_SIZE, IV_SIZE + 1,
                    NONCE_SIZE + TAG_SIZE - 1, NONCE_SIZE + TAG_SIZE, 2 * BLOCK_SIZE + 1} :
             /\ mode' = m
             /\ msg' = args
             /\ wire' = Fill(n, 5)
    /\ tamper' = "raw"
    /\ pc' = "sent"
    /\ UNCHANGED <<userKey, cipher, encRes, aadRecv, dg, decRes>>

CallDecrypt ==
    /\ pc = "sent"
    /\ \E r \in {Loop("Decrypt", [m |-> mode, xk |-> cipher.expandedKey, data |-> wire,
                                  args |-> msg,
                                  \* GMAC is called again under another nonce
                                  nonce |-> IF mode = "GMAC" THEN Fill(NONCE_SIZE, 13)
                                            ELSE dg.enc.rnd],
                      [done |-> FALSE], 1).res} :
          /\ Received(WithNil(r))
          /\ dg' = [dg EXCEPT !.dec = Locals(r)]

\* a.ClearKey(), at any time after construction
CallClearKey ==
    /\ pc \in {"ready", "sent", "done", "cleared"} \/ (pc = "failed" /\ mode # "none")
    /\ cipher' = ClearKey(cipher)
    /\ pc' = "cleared"
    /\ UNCHANGED <<userKey, mode, msg, encRes, wire, aadRecv, tamper, dg, decRes>>

\* keys of no, 32 and 33 bytes
Init == Start({<<>>, genericKey, Fill(KEY_SIZE + 1, 7)})

Next ==
    \/ New
    \/ CallEncrypt
    \/ Receive
    \/ CallDecrypt
    \/ CallClearKey

Spec == Init /\ [][Next]_vars

\* C4: for every segment size s in 1..16 and every plaintext length (0, less
\* than s, a multiple of s, not a multiple of s) EncryptCFB succeeds and
\* DecryptCFB of its output with the same s returns exactly the plaintext;
\* in both directions the last segment has at most s bytes and meets an
\* s-byte keystream slice, and nothing panics.
C4_CFBRoundTrip ==
    (mode = "CFB" /\ tamper = "none" /\ msg.s \in 1..BLOCK_SIZE) =>
        /\ encRes.err = NoErr /\ ~encRes.panic
        /\ dg.enc.lastData <= msg.s /\ dg.enc.lastKey = msg.s
        /\ pc = "done" =>
              /\ decRes.out = msg.p /\ decRes.err = NoErr /\ ~decRes.panic
              /\ dg.dec.lastData <= msg.s /\ dg.dec.lastKey = msg.s

C4_Witness ==
    /\ mode = "CFB" /\ pc = "done" /\ tamper = "none"
    /\ msg.s = 3
    /\ Len(msg.p) = BLOCK_SIZE + 1
    /\ dg.dec.lastData = 2
    /\ decRes.out = msg.p

\* C5: for every plaintext length EncryptOFB/EncryptCTR succeed and
\* DecryptOFB/DecryptCTR of the output return exactly the plaintext; the
\* last keystream block is cut to len mod 16 bytes, which is the number of
\* data bytes left, and nothing panics.
C5_StreamRoundTrip ==
    (mode \in {"OFB", "CTR"} /\ tamper = "none") =>
        /\ encRes.err = NoErr /\ ~encRes.panic
        /\ dg.enc.lastKey = Len(msg.p) % BLOCK_SIZE /\ dg.enc.lastData = dg.enc.lastKey
        /\ pc = "done" =>
              /\ decRes.out = msg.p /\ decRes.err = NoErr /\ ~decRes.panic
              /\ dg.dec.lastKey = Len(msg.p) % BLOCK_SIZE /\ dg.dec.lastData = dg.dec.lastKey

C5_Witness ==
    /\ mode = "CTR" /\ pc = "done" /\ tamper = "none"
    /\ Len(msg.p) = BLOCK_SIZE + 1
    /\ dg.dec.lastKey = 1
    /\ decRes.out = msg.p

\* C6: with PKCS#7 padding EncryptECB and EncryptCBC succeed for every
\* plaintext (empty and whole blocks included), the padded length is a
\* multiple of 16 greater than the plaintext's length, and DecryptECB and
\* DecryptCBC with PKCS7Unpadding return exactly the plaintext.
C6_PKCS7RoundTrip ==
    (mode \in {"ECB", "CBC"} /\ tamper = "none" /\ msg.pad = "PKCS7Padding") =>
        /\ encRes.err = NoErr /\ ~encRes.panic
        /\ LET padded == Len(wire) - (IF mode = "CBC" THEN IV_SIZE ELSE 0)
           IN  padded % BLOCK_SIZE = 0 /\ padded > Len(msg.p)
        /\ pc = "done" => (decRes.out = msg.p /\ decRes.err = NoErr /\ ~decRes.panic)

C6_Witness ==
    /\ mode = "CBC" /\ pc = "done" /\ tamper = "none" /\ msg.pad = "PKCS7Padding"
    /\ Len(msg.p) = BLOCK_SIZE
    /\ Len(wire) = IV_SIZE + 2 * BLOCK_SIZE
    /\ decRes.out = msg.p

\* C7: with zero padding DecryptECB and DecryptCBC with ZeroUnpadding return
\* exactly the plaintext, without a panic, for every plaintext: the empty
\* one and those ending in 0x00 included.
C7_ZeroPaddingRoundTrip ==
    (mode \in {"ECB", "CBC"} /\ tamper = "none" /\ msg.pad = "ZeroPadding" /\ pc = "done") =>
        (decRes.out = msg.p /\ decRes.err = NoErr /\ ~decRes.panic)

\* C8 as stated: NewAES256 turns away every key that is not 32 bytes long
\* with the key-size error and no cipher, and for a 32-byte key holds the
\* round keys ExpandKey(key).
C8_OnlyKeysOf32Bytes ==
    (pc \in {"ready", "failed"} /\ mode = "none") =>
        IF Len(userKey) # KEY_SIZE
        THEN cipher.err = ErrKeySize /\ cipher.isNil
        ELSE cipher.err = NoErr /\ cipher.expandedKey = ExpandKey(userKey).out

\* C8: NewAES256 accepts a key of every length: it returns a cipher and no
\* error, the cipher's Key is the 32-byte SHA-256 digest of the supplied
\* bytes, and its round keys are ExpandKey of that digest.
C8_KeyIsHashed ==
    (pc \in {"ready", "failed"} /\ mode = "none") =>
        /\ pc = "ready"
        /\ cipher.err = NoErr /\ ~cipher.isNil
        /\ Len(cipher.Key) = KEY_SIZE
        /\ cipher.Key = newSHA256(userKey)
        /\ userKey = <<>> =>
              cipher.Key = <<227, 176, 196, 66, 152, 252, 28, 20, 154, 251, 244, 200,
                             153, 111, 185, 36, 39, 174, 65, 228, 100, 155, 147, 76,
                             164, 149, 153, 27, 120, 82, 184, 85>>
        /\ cipher.expandedKey = ExpandKey(cipher.Key).out
        /\ Len(cipher.expandedKey) = EXP_KEY_SIZE

C8_Witness ==
    /\ pc = "ready" /\ mode = "none"
    /\ Len(userKey) = KEY_SIZE + 1
    /\ cipher.err = NoErr
    /\ Len(cipher.Key) = KEY_SIZE
    /\ cipher.Key # userKey

\* C9: key.ExpandKey returns the key-size error and no schedule for every
\* input that is not 32 bytes long; for a 32-byte key it returns 240 bytes
\* that begin with the key, and a second call returns the same bytes.
C9_ExpandKey ==
    mode = "ExpandKey" =>
        IF Len(msg.p) # KEY_SIZE
        THEN encRes.err = ErrKeySize /\ encRes.out = <<>> /\ encRes.isNil
        ELSE /\ encRes.err = NoErr
             /\ Len(encRes.out) = EXP_KEY_SIZE
             /\ SubSeq(encRes.out, 1, KEY_SIZE) = msg.p
             /\ pc = "done" => (decRes.err = NoErr /\ decRes.out = encRes.out)

C9_Witness ==
    /\ mode = "ExpandKey" /\ pc = "done"
    /\ Len(msg.p) = KEY_SIZE
    /\ Len(decRes.out) = EXP_KEY_SIZE
    /\ decRes.out = encRes.out

\* C10: on every cipher DecryptBlock undoes EncryptBlock and EncryptBlock
\* undoes DecryptBlock on a 16-byte block; an input of another length gets
\* the block-size error and nil from both; neither changes its input slice.
C10_BlockRoundTrip ==
    mode \in {"EncryptBlock", "DecryptBlock"} =>
        /\ dg.enc.buf = msg.p
        /\ IF Len(msg.p) # BLOCK_SIZE
           THEN encRes.err = ErrStateSize /\ encRes.out = <<>> /\ encRes.isNil
           ELSE /\ encRes.err = NoErr
                /\ Len(encRes.out) = BLOCK_SIZE
                /\ pc = "done" =>
                      (decRes.out = msg.p /\ decRes.err = NoErr /\ dg.dec.buf = wire)

C10_Witness ==
    /\ mode = "DecryptBlock" /\ pc = "done"
    /\ Len(msg.p) = BLOCK_SIZE
    /\ msg.p # Zeros(BLOCK_SIZE)
    /\ decRes.out = msg.p
    /\ wire # msg.p

\* C11: with round keys ExpandKey of a published AES-256 key, EncryptBlock
\* of the all-zero block returns the published ciphertext and DecryptBlock
\* of that ciphertext returns the all-zero block.
C11_KnownAnswers ==
    mode = "TestEncryptBlock" =>
        /\ encRes.err = NoErr /\ ~encRes.panic
        /\ \E v \in TestVectors : v.key = msg.p /\ v.enc = encRes.out
        /\ pc = "done" =>
              (wire = encRes.out /\ decRes.err = NoErr /\ decRes.out = Zeros(BLOCK_SIZE))

C11_Witness ==
    /\ mode = "TestEncryptBlock" /\ pc = "done"
    /\ msg.p = <<128>> \o Zeros(KEY_SIZE - 1)
    /\ At(encRes.out, 0) = 227
    /\ decRes.out = Zeros(BLOCK_SIZE)

\* C12: the table InitSBOX returns holds every byte value exactly once and
\* 0x63 at index 0; the table InitInvSBOX makes of it maps SBox[x] back to x
\* for every byte x; a second call of InitSBOX returns the same 256 bytes.
C12_SBoxBijective ==
    mode \in {"InitSBOX", "InitInvSBOX"} =>
        /\ Len(encRes.out) = 256
        /\ {At(encRes.out, x) : x \in Byte} = Byte
        /\ At(encRes.out, 0) = 99
        /\ (pc = "done" /\ mode = "InitSBOX") => decRes.out = encRes.out
        /\ (pc = "done" /\ mode = "InitInvSBOX") =>
              \A x \in Byte : At(decRes.out, At(encRes.out, x)) = x

C12_Witness ==
    /\ mode = "InitInvSBOX" /\ pc = "done"
    /\ At(encRes.out, 1) = 124
    /\ At(decRes.out, 124) = 1
    /\ At(decRes.out, 99) = 0

\* C13: a successful encryption output is prefix, body and (for GCM) tag:
\* CBC, CFB and OFB outputs begin with the 16 bytes read as IV, CTR and GCM
\* outputs with the 12 bytes read as nonce; a GCM output ends with the 16
\* bytes GMAC returns for the body, the associated data and the nonce; the
\* body is as long as the plaintext for CFB, OFB, CTR and GCM and
\* 16 * (len(plaintext) div 16 + 1) bytes long for ECB and CBC.
C13_WireLayout ==
    (tamper = "none" /\ encRes.err = NoErr /\ ~encRes.panic /\ pc \in {"sent", "done"}) =>
        LET out == encRes.out
            n == Len(msg.p)
            padded == BLOCK_SIZE * ((n \div BLOCK_SIZE) + 1)
        IN  /\ mode = "ECB" => Len(out) = padded
            /\ mode = "CBC" => Len(out) = IV_SIZE + padded
            /\ mode \in {"CFB", "OFB"} => Len(out) = IV_SIZE + n
            /\ mode \in {"CBC", "CFB", "OFB"} =>
                  (Len(dg.enc.rnd) = IV_SIZE /\ Slice(out, 0, IV_SIZE) = dg.enc.rnd)
            /\ mode = "CTR" => Len(out) = NONCE_SIZE + n
            /\ mode \in {"CTR", "GCM"} =>
                  (Len(dg.enc.rnd) = NONCE_SIZE /\ Slice(out, 0, NONCE_SIZE) = dg.enc.rnd)
            /\ mode = "GCM" =>
                  /\ Len(out) = NONCE_SIZE + n + TAG_SIZE
                  /\ SliceFrom(out, Len(out) - TAG_SIZE)
                        = GMAC(cipher.expandedKey, Slice(out, NONCE_SIZE, Len(out) - TAG_SIZE),
                               <<>>, msg.a, Slice(out, 0, NONCE_SIZE)).out

C13_Witness ==
    /\ mode = "GCM" /\ pc = "sent" /\ tamper = "none"
    /\ encRes.err = NoErr
    /\ Len(msg.p) = BLOCK_SIZE + 1
    /\ Len(encRes.out) = NONCE_SIZE + BLOCK_SIZE + 1 + TAG_SIZE
    /\ Slice(encRes.out, 0, NONCE_SIZE) = dg.enc.rnd

\* C14: a Decrypt call on input of invalid length (DecryptECB input or
\* DecryptCBC body not a multiple of 16 bytes; DecryptCBC, DecryptCFB or
\* DecryptOFB input of less than 16 bytes; DecryptCTR input of less than 12;
\* DecryptGCM input of less than 28) returns an error and nil and does not
\* panic.
C14_InvalidLengthIsError ==
    LET n == Len(wire)
        invalid ==
            \/ mode = "ECB" /\ n % BLOCK_SIZE # 0
            \/ mode = "CBC" /\ (n < IV_SIZE \/ (n - IV_SIZE) % BLOCK_SIZE # 0)
            \/ mode \in {"CFB", "OFB"} /\ n < IV_SIZE
            \/ mode = "CTR" /\ n < NONCE_SIZE
            \/ mode = "GCM" /\ n < NONCE_SIZE + TAG_SIZE
    IN  (tamper = "raw" /\ pc = "done" /\ invalid) =>
            (~decRes.panic /\ decRes.err # NoErr /\ decRes.isNil)

\* C15: EncryptCFB and DecryptCFB return the segment-size error and nil for
\* every s below 1 and above 16, EncryptCFB before it reads random bytes and
\* DecryptCFB whatever the length of its input; for s in 1..16 neither
\* returns that error.
C15_SegmentSize ==
    mode = "CFB" =>
        IF msg.s \in 1..BLOCK_SIZE
        THEN encRes.err # ErrSegment /\ (pc = "done" => decRes.err # ErrSegment)
        ELSE /\ tamper = "none" =>
                   /\ encRes.err = ErrSegment /\ encRes.isNil /\ encRes.out = <<>>
                   /\ ~encRes.panic
                   /\ dg.enc.rnd = <<>>
             /\ (tamper = "raw" /\ pc = "done") =>
                   /\ decRes.err = ErrSegment /\ decRes.isNil /\ decRes.out = <<>>
                   /\ ~decRes.panic

C15_Witness ==
    /\ mode = "CFB" /\ tamper = "raw" /\ pc = "done"
    /\ msg.s = BLOCK_SIZE + 1
    /\ Len(wire) = IV_SIZE - 1
    /\ decRes.err = ErrSegment

\* C16: once ClearKey has returned, the 32 bytes of the cipher's Key and the
\* 240 bytes of its expandedKey are all zero, whatever calls came before,
\* and they stay zero under further calls of ClearKey.
C16_ClearKey ==
    pc = "cleared" =>
        (cipher.Key = Zeros(KEY_SIZE) /\ cipher.expandedKey = Zeros(EXP_KEY_SIZE))

C16_Witness ==
    /\ pc = "cleared"
    /\ mode = "CBC" /\ decRes.err = NoErr /\ Len(decRes.out) > 0
    /\ Len(cipher.expandedKey) = EXP_KEY_SIZE
    /\ cipher.expandedKey = Zeros(EXP_KEY_SIZE)

\* C18: DecryptCBC changes no byte of the slice it is given, so that a
\* second DecryptCBC of the same slice returns what the first returned.
C18_DecryptCBCKeepsInput ==
    (mode = "CBC" /\ tamper = "none" /\ pc = "done") =>
        /\ dg.dec.buf = wire
        /\ DecryptCBC(cipher.expandedKey, dg.dec.buf,
                      IF msg.pad = "ZeroPadding" THEN "ZeroUnpadding"
                      ELSE "PKCS7Unpadding").out = decRes.out

\* C19: for 16-byte blocks x and y, GmulBlocks(x, y) is the product of x and
\* y in the 128-bit field of GCM, as GHASH multiplies.
C19_GmulBlocksIsFieldProduct ==
    mode = "GmulBlocks" => encRes.out = GF128Mul(msg.p, msg.a)

\* C20: the last 16 bytes GMAC hands to Ghash are the length of the
\* associated data in bits and the length of the ciphertext in bits (8 times
\* the byte lengths), each as 8 bytes, big-endian.
C20_BitLengths ==
    (mode = "GMAC" /\ encRes.err = NoErr /\ ~encRes.panic) =>
        SliceFrom(dg.enc.hashData, Len(dg.enc.hashData) - BLOCK_SIZE)
            = PutUint64(8 * Len(msg.a)) \o PutUint64(8 * Len(msg.p))

\* ------------------------------------------------------------------------
\* two goroutines on one cipher: one runs EncryptBlock and one DecryptBlock
\* on blocks of their own, interleaved call by call of the round transforms
\* ------------------------------------------------------------------------
\* steps that do nothing but add the round key of round 0
BlockStepsOnlyRoundKey(decrypt) == [k \in 1..(4 * NR) |-> <<"addRoundKey", 0>>]

\* the calls EncryptBlock (decrypt = FALSE) and DecryptBlock (decrypt = TRUE)
\* make after their length check, in order, each with its round index
BlockSteps(decrypt) ==
    [k \in 1..(4 * NR) |->
        LET round == (k + 2) \div 4
            pos == (k + 2) % 4
        IN  IF k = 1 THEN <<"addRoundKey", IF decrypt THEN NR ELSE 0>>
            ELSE IF decrypt
            THEN CASE pos = 0 -> <<"invShiftRows", NR - round>>
                   [] pos = 1 -> <<"invSubBytes", NR - round>>
                   [] pos = 2 -> <<"addRoundKey", NR - round>>
                   [] OTHER -> <<"invMixColumns", NR - round>>
            ELSE CASE pos = 0 -> <<"subBytes", round>>
                   [] pos = 1 -> <<"shiftRows", round>>
                   [] pos = 2 /\ round < NR -> <<"mixColumns", round>>
                   [] OTHER -> <<"addRoundKey", round>>]

\* "go a.EncryptBlock(x)" and "go a.DecryptBlock(y)": each goroutine copies
\* its block into a state of its own; k is the step it makes next
Spawn ==
    /\ pc = "ready"
    /\ \E x \in {Zeros(BLOCK_SIZE), Fill(BLOCK_SIZE, 37)}, y \in {Fill(BLOCK_SIZE, 37)} :
          /\ msg' = [NoMsg EXCEPT !.p = x, !.pNil = FALSE, !.a = y, !.aNil = FALSE]
          /\ encRes' = WithNil(Ret(x)) @@ [k |-> 1]
          /\ decRes' = WithNil(Ret(y)) @@ [k |-> 1]
    /\ mode' = "go"
    /\ pc' = "running"
    /\ UNCHANGED <<userKey, cipher, wire, aadRecv, tamper, dg>>

\* one step of the goroutine that runs EncryptBlock
EncryptBlockStep ==
    /\ pc = "running"
    /\ encRes.k <= 4 * NR /\ encRes.err = NoErr
    /\ encRes' = WithNil(Then(encRes, <<BlockSteps(FALSE)[encRes.k][1]>>, cipher.expandedKey,
                              BlockSteps(FALSE)[encRes.k][2])) @@ [k |-> encRes.k + 1]
    /\ UNCHANGED <<pc, userKey, cipher, mode, msg, wire, aadRecv, tamper, dg, decRes>>

\* one step of the goroutine that runs DecryptBlock
DecryptBlockStep ==
    /\ pc = "running"
    /\ decRes.k <= 4 * NR /\ decRes.err = NoErr
    /\ decRes' = WithNil(Then(decRes, <<BlockSteps(TRUE)[decRes.k][1]>>, cipher.expandedKey,
                              BlockSteps(TRUE)[decRes.k][2])) @@ [k |-> decRes.k + 1]
    /\ UNCHANGED <<pc, userKey, cipher, mode, msg, wire, aadRecv, tamper, dg, encRes>>

NextConc ==
    \/ New
    \/ Spawn
    \/ EncryptBlockStep
    \/ DecryptBlockStep

SpecConc == Start({genericKey}) /\ [][NextConc]_vars

C22_Increment ==
    (mode = "Increment" /\ pc \in {"sent", "done"}) =>
        LET hi(c) == 256 * c[1] + c[2]
            lo(c) == 256 * c[3] + c[4]
            Succ(c, d) ==
                /\ Len(d) = COUNTER_SIZE
                /\ \A i \in 1..COUNTER_SIZE : d[i] \in Byte
                /\ lo(d) = (lo(c) + 1) % 65536
                /\ hi(d) = (hi(c) + ((lo(c) + 1) \div 65536)) % 65536
        IN  /\ encRes.err = NoErr /\ ~encRes.panic
            /\ Succ(msg.p, encRes.out)
            /\ msg.p = NewCounter => encRes.out = <<0, 0, 0, 1>>
            /\ msg.p = <<255, 255, 255, 255>> => encRes.out = <<0, 0, 0, 0>>
            /\ pc = "done" =>
                  /\ decRes.err = NoErr /\ ~decRes.panic
                  /\ Succ(encRes.out, decRes.out)
                  /\ msg.p = NewCounter => decRes.out = <<0, 0, 0, 2>>

C22_Witness ==
    /\ mode = "Increment" /\ pc = "done"
    /\ msg.p = <<255, 255, 255, 255>>
    /\ encRes.out = <<0, 0, 0, 0>>
    /\ decRes.out = <<0, 0, 0, 1>>

\* C23: for data of n bytes that is not nil and a counter c on entry,
\* coreBlockCTR combines block k of the data with
\* EncryptBlock(nonce || (c + k) mod 2^32) (big-endian), the last block with
\* the first n mod 16 bytes of it; every block handed to EncryptBlock is the
\* 12-byte nonce followed by 4 counter bytes; the caller's counter holds
\* (c + n div 16) mod 2^32 afterwards; EncryptCTR and DecryptCTR enter with
\* c = 0, EncryptGCM and DecryptGCM with c = 1.
C23_CounterBlocks ==
    LET xk == cipher.expandedKey
        \* the counter c plus k, k < 2^16
        Plus(c, k) ==
            LET lo == 256 * c[3] + c[4] + k
                hi == (256 * c[1] + c[2] + (lo \div 65536)) % 65536
            IN  <<hi \div 256, hi % 256, (lo % 65536) \div 256, lo % 256>>
        Min(a, b) == IF a < b THEN a ELSE b
        Combined(data, out, nonce, c) ==
            /\ Len(out) = Len(data)
            /\ \A k \in 0..((Len(data) + BLOCK_SIZE - 1) \div BLOCK_SIZE) - 1 :
                  LET lo == BLOCK_SIZE * k
                      hi == Min(lo + BLOCK_SIZE, Len(data))
                  IN  Slice(out, lo, hi)
                          = GxorBlocks(Slice(data, lo, hi),
                                       Slice(EncryptBlock(xk, nonce \o Plus(c, k)).out,
                                             0, hi - lo))
        Inputs(ins, n, nonce, c) ==
            /\ Len(ins) = (n \div BLOCK_SIZE) + 1
            /\ \A i \in 1..Len(ins) :
                  Len(ins[i]) = BLOCK_SIZE /\ ins[i] = nonce \o Plus(c, i - 1)
        first == IF mode = "GCM" THEN <<0, 0, 0, 1>> ELSE NewCounter
    IN  /\ (mode = "coreBlockCTR" /\ pc \in {"sent", "done"}) =>
              /\ encRes.err = NoErr /\ ~encRes.panic
              /\ Combined(msg.p, encRes.out, dg.enc.rnd, msg.a)
              /\ Inputs(dg.enc.inputs, Len(msg.p), dg.enc.rnd, msg.a)
              /\ dg.enc.ctr = Plus(msg.a, Len(msg.p) \div BLOCK_SIZE)
              /\ pc = "done" =>
                    /\ decRes.err = NoErr /\ decRes.out = msg.p
                    /\ dg.dec.inputs = dg.enc.inputs
                    /\ dg.dec.ctr = dg.enc.ctr
        /\ (mode \in {"CTR", "GCM"} /\ tamper = "none" /\ pc \in {"sent", "done"}) =>
              /\ encRes.err = NoErr /\ ~encRes.panic
              /\ Inputs(dg.enc.inputs, Len(msg.p), dg.enc.rnd, first)
              /\ dg.enc.ctr = Plus(first, Len(msg.p) \div BLOCK_SIZE)
              /\ pc = "done" =>
                    /\ decRes.err = NoErr
                    /\ Inputs(dg.dec.inputs, Len(msg.p), dg.enc.rnd, first)
                    /\ dg.dec.ctr = dg.enc.ctr

C23_Witness ==
    /\ mode = "coreBlockCTR" /\ pc = "done"
    /\ msg.a = <<255, 255, 255, 255>>
    /\ Len(msg.p) = BLOCK_SIZE + 1
    /\ Len(dg.enc.inputs) = 2
    /\ SliceFrom(dg.enc.inputs[2], NONCE_SIZE) = <<0, 0, 0, 0>>
    /\ dg.enc.ctr = <<0, 0, 0, 0>>
    /\ decRes.out = msg.p

\* C24: in EncryptCFB and DecryptCFB with s in 1..16 the shift register is
\* 16 bytes at every step; after every step but the last it holds the
\* bytes s..15 of its old value followed by the step's s bytes of
\* ciphertext (produced by EncryptCFB, consumed by DecryptCFB); and the
\* keystream of a step is taken from the front of EncryptBlock(register).
C24_ShiftRegister ==
    (mode = "CFB" /\ tamper = "none" /\ msg.s \in 1..BLOCK_SIZE /\ pc \in {"sent", "done"}) =>
        LET xk == cipher.expandedKey
            s == msg.s
            n == Len(msg.p)
            body == SliceFrom(encRes.out, IV_SIZE)
            steps == (IF n = 0 THEN 0 ELSE (n - 1) \div s) + 1
            Seg(x, j) == Slice(x, (j - 1) * s, IF j * s < Len(x) THEN j * s ELSE Len(x))
            Shifts(regs) ==
                /\ Len(regs) = steps
                /\ regs[1] = dg.enc.rnd
                /\ \A j \in 1..steps : Len(regs[j]) = BLOCK_SIZE
                /\ \A j \in 1..(steps - 1) :
                      /\ Len(Seg(body, j)) = s
                      /\ regs[j + 1] = SliceFrom(regs[j], s) \o Seg(body, j)
            Keyed(regs, from, to) ==
                \A j \in 1..steps :
                    Seg(to, j) = GxorBlocks(Seg(from, j),
                                            Slice(EncryptBlock(xk, regs[j]).out,
                                                  0, Len(Seg(from, j))))
        IN  /\ encRes.err = NoErr /\ ~encRes.panic
            /\ Len(body) = n
            /\ Shifts(dg.enc.regs)
            /\ Keyed(dg.enc.regs, msg.p, body)
            /\ pc = "done" =>
                  /\ decRes.err = NoErr /\ ~decRes.panic
                  /\ Len(decRes.out) = n
                  /\ Shifts(dg.dec.regs)
                  /\ Keyed(dg.dec.regs, body, decRes.out)

C24_Witness ==
    /\ mode = "CFB" /\ tamper = "none" /\ pc = "done"
    /\ msg.s = 3
    /\ Len(msg.p) = BLOCK_SIZE + 1
    /\ Len(dg.dec.regs) = 6
    /\ dg.dec.regs[2] = SliceFrom(dg.enc.rnd, 3) \o Slice(wire, IV_SIZE, IV_SIZE + 3)
    /\ dg.dec.regs[6] # dg.dec.regs[5]

\* C25: EncryptBlock adds the round keys 0, 1, .., 14 in this order, each
\* once, with SubBytes, ShiftRows, MixColumns before the key of each of the
\* rounds 1..13 and SubBytes, ShiftRows before the key of round 14;
\* DecryptBlock adds the round keys 14, .., 0 in this order, each once, with
\* InvShiftRows, InvSubBytes before each key but the first and
\* InvMixColumns after the keys of the rounds 13..1 only; every round index
\* lies in 0..14; addRoundKey combines the state with the bytes
\* [16r, 16r + 16) of the expanded key and returns an error for an index
\* above 14.
C25_RoundOrder ==
    LET IsKey(e) == e[1] = "addRoundKey"
        Keys(steps) == SelectSeq(steps, IsKey)
        Names(steps, from, to) == [i \in 1..(to - from + 1) |-> steps[from + i - 1][1]]
        InRange(steps) == \A i \in 1..Len(steps) : steps[i][2] \in 0..NR
        Forward(steps) ==
            /\ Len(steps) = 1 + 4 * (NR - 1) + 3
            /\ InRange(steps)
            /\ Keys(steps) = [i \in 1..(NR + 1) |-> <<"addRoundKey", i - 1>>]
            /\ steps[1] = <<"addRoundKey", 0>>
            /\ \A r \in 1..(NR - 1) :
                  Names(steps, 4 * r - 2, 4 * r + 1)
                      = <<"subBytes", "shiftRows", "mixColumns", "addRoundKey">>
            /\ Names(steps, 4 * NR - 2, 4 * NR)
                  = <<"subBytes", "shiftRows", "addRoundKey">>
        Backward(steps) ==
            /\ Len(steps) = 1 + 4 * (NR - 1) + 3
            /\ InRange(steps)
            /\ Keys(steps) = [i \in 1..(NR + 1) |-> <<"addRoundKey", NR + 1 - i>>]
            /\ steps[1] = <<"addRoundKey", NR>>
            /\ \A k \in 1..(NR - 1) :
                  /\ Names(steps, 4 * k - 2, 4 * k + 1)
                        = <<"invShiftRows", "invSubBytes", "addRoundKey", "invMixColumns">>
                  /\ steps[4 * k][2] = NR - k
            /\ Names(steps, 4 * NR - 2, 4 * NR)
                  = <<"invShiftRows", "invSubBytes", "addRoundKey">>
    IN  /\ (mode \in {"EncryptBlock", "DecryptBlock"} /\ Len(msg.p) = BLOCK_SIZE
            /\ pc \in {"sent", "done"}) =>
              /\ IF mode = "EncryptBlock" THEN Forward(dg.enc.steps)
                 ELSE Backward(dg.enc.steps)
              /\ pc = "done" =>
                    IF mode = "EncryptBlock" THEN Backward(dg.dec.steps)
                    ELSE Forward(dg.dec.steps)
        /\ (mode = "addRoundKey" /\ pc \in {"sent", "done"}) =>
              IF msg.s > NR
              THEN /\ encRes.err = ErrRoundIdx /\ encRes.isNil /\ ~encRes.panic
                   /\ pc = "done" => decRes.err = ErrRoundIdx
              ELSE /\ encRes.err = NoErr /\ ~encRes.panic
                   /\ encRes.out
                         = GxorBlocks(msg.p, Slice(cipher.expandedKey, BLOCK_SIZE * msg.s,
                                                   BLOCK_SIZE * msg.s + BLOCK_SIZE))
                   /\ pc = "done" => (decRes.err = NoErr /\ decRes.out = msg.p)

C25_Witness ==
    /\ mode = "EncryptBlock" /\ pc = "done"
    /\ Len(msg.p) = BLOCK_SIZE
    /\ Len(dg.enc.steps) = 4 * NR
    /\ dg.enc.steps[4 * NR - 1] = <<"shiftRows", NR>>
    /\ dg.enc.steps[4 * NR - 4] = <<"mixColumns", NR - 1>>
    /\ dg.dec.steps[1] = <<"addRoundKey", NR>>
    /\ dg.dec.steps[5] = <<"invMixColumns", NR - 1>>
    /\ decRes.out = msg.p

\* C26: for a 32-byte key every 4-byte word of ExpandKey's output at an
\* offset c in 32, 36, .., 236 is word(c - 32) XOR f(word(c - 4)), where f
\* is RotWord, SubWord and Rcon(c / 32) into byte 0 when c mod 32 = 0,
\* SubWord when c mod 32 = 16 and nothing otherwise; Rcon(0) = 0 and
\* Rcon(i) is the (i-1)-th power of 2 in GF(2^8); no byte expression of the
\* loop wraps, and the loop ends at c = 240 with 240 bytes.
C26_KeySchedule ==
    LET Powers == <<1, 2, 4, 8, 16, 32, 64, 128, 27, 54, 108>>
        word(x, c) == Slice(x, c, c + WORD_SIZE)
        rot(w) == <<w[2], w[3], w[4], w[1]>>
        sub(w) == <<InitSBOX[w[1]], InitSBOX[w[2]], InitSBOX[w[3]], InitSBOX[w[4]]>>
        rcon(w, i) == <<Xor(w[1], Powers[i]), w[2], w[3], w[4]>>
        f(w, c) == IF c % KEY_SIZE = 0 THEN rcon(sub(rot(w)), c \div KEY_SIZE)
                   ELSE IF c % KEY_SIZE = BLOCK_SIZE THEN sub(w)
                   ELSE w
        Schedule(x) ==
            /\ Len(x) = EXP_KEY_SIZE
            /\ \A i \in 1..EXP_KEY_SIZE : x[i] \in Byte
            /\ \A k \in (KEY_SIZE \div WORD_SIZE)..((EXP_KEY_SIZE \div WORD_SIZE) - 1) :
                  word(x, WORD_SIZE * k)
                      = GxorBlocks(word(x, WORD_SIZE * k - KEY_SIZE),
                                   f(word(x, WORD_SIZE * k - WORD_SIZE), WORD_SIZE * k))
    IN  /\ (mode = "ExpandKey" /\ Len(msg.p) = KEY_SIZE) =>
              /\ encRes.err = NoErr /\ ~encRes.panic
              /\ Slice(encRes.out, 0, KEY_SIZE) = msg.p
              /\ Schedule(encRes.out)
              /\ dg.enc.c = EXP_KEY_SIZE
              /\ dg.enc.wrapped = FALSE
        /\ (pc = "ready" /\ mode = "none") =>
              (Slice(cipher.expandedKey, 0, KEY_SIZE) = cipher.Key
               /\ Schedule(cipher.expandedKey))
        /\ mode = "Rcon" =>
              /\ encRes.err = NoErr
              /\ msg.s = 0 => encRes.out = <<0>>
              /\ msg.s \in 1..Len(Powers) => encRes.out = <<Powers[msg.s]>>
              /\ msg.s \in 1..(Len(Powers) - 1) =>
                    Powers[msg.s + 1] = Gmul(Powers[msg.s], 2)
              \* 2 has the order 51 in GF(2^8)
              /\ msg.s = 52 => encRes.out = <<1>>

C26_Witness ==
    /\ mode = "ExpandKey" /\ pc = "done"
    /\ Len(msg.p) = KEY_SIZE
    /\ msg.p # Zeros(KEY_SIZE)
    /\ dg.enc.c = EXP_KEY_SIZE
    /\ Len(encRes.out) = EXP_KEY_SIZE
    /\ Slice(encRes.out, EXP_KEY_SIZE - WORD_SIZE, EXP_KEY_SIZE) # Zeros(WORD_SIZE)

\* C27: for all bytes a and b Gmul(a, b) is the product of a and b as
\* polynomials over GF(2) reduced modulo x^8+x^4+x^3+x+1: it is commutative
\* and associative, Gmul(a, 1) = a, Gmul(a, 0) = 0, it distributes over
\* Gadd, and Gadd(a, b) = Gsub(a, b) = a XOR b; Gmul's loop makes 8 passes.
C27_Gmul ==
    (mode = "Gmul" /\ pc \in {"sent", "done"}) =>
        LET a == msg.p[1]
            Bit(v, i) == (v \div (2 ^ i)) % 2
            \* the product of the polynomials a and b, 15 bits
            RECURSIVE Poly(_, _, _)
            Poly(x, y, i) ==
                IF i > 7 THEN 0
                ELSE Xor16(IF Bit(y, i) = 1 THEN x * (2 ^ i) ELSE 0, Poly(x, y, i + 1))
            \* v modulo 0x11B, from bit i downwards
            RECURSIVE Reduce(_, _)
            Reduce(v, i) ==
                IF i < 8 THEN v
                ELSE Reduce(IF Bit(v, i) = 1 THEN Xor16(v, 283 * (2 ^ (i - 8))) ELSE v, i - 1)
            Product(x, y) == Reduce(Poly(x, y, 0), 14)
            BitXor(x, y) == LET S == {i \in 0..7 : Bit(x, i) # Bit(y, i)}
                                RECURSIVE Sum(_)
                                Sum(T) == IF T = {} THEN 0
                                          ELSE LET i == CHOOSE i \in T : TRUE
                                               IN  (2 ^ i) + Sum(T \ {i})
                            IN  Sum(S)
        IN  /\ encRes.err = NoErr /\ ~encRes.panic
            /\ dg.enc.passes = 8
            /\ encRes.out = <<Product(a, msg.p[2]), BitXor(a, msg.p[2]), BitXor(a, msg.p[2])>>
            /\ pc = "done" => (decRes.out = encRes.out /\ dg.dec.passes = 8)
            /\ pc = "sent" =>
                  /\ Gmul(a, 1) = a /\ Gmul(a, 0) = 0
                  /\ \A b \in Byte :
                        /\ Gmul(a, b) \in Byte
                        /\ Gmul(a, b) = Product(a, b)
                        /\ Gmul(a, b) = Gmul(b, a)
                        /\ Gadd(a, b) = BitXor(a, b) /\ Gsub(a, b) = Gadd(a, b)
                        /\ \A c \in {0, 1, 2, 3, 27, 83, 128, 202, 255} :
                              /\ Gmul(Gmul(a, b), c) = Gmul(a, Gmul(b, c))
                              /\ Gmul(a, Gadd(b, c)) = Gadd(Gmul(a, b), Gmul(a, c))

C27_Witness ==
    /\ mode = "Gmul" /\ pc = "done"
    /\ msg.p = <<202, 83>>
    /\ encRes.out = <<1, 153, 153>>
    /\ decRes.out = encRes.out
    /\ dg.enc.passes = 8

\* C28: the loop of InitSBOX ends after exactly 255 passes; at the end of
\* every pass Gmul(p, q) = 1; after pass k the value of p is 3^k in the
\* field, so p takes every non-zero byte value exactly once before it is 1
\* again, every non-zero index of the table is written exactly once by the
\* loop and index 0 only by the assignment after it.
C28_SBoxLoop ==
    (mode \in {"InitSBOX", "InitInvSBOX"} /\ pc \in {"sent", "done"}) =>
        LET ps == dg.enc.steps
        IN  /\ Len(ps) = 255
            /\ \A k \in 1..Len(ps) :
                  /\ Gmul(ps[k][1], ps[k][2]) = 1
                  /\ ps[k][1] = Gmul(IF k = 1 THEN 1 ELSE ps[k - 1][1], 3)
                  /\ ps[k][1] = 1 <=> k = 255
            /\ {ps[k][1] : k \in 1..Len(ps)} = Byte \ {0}
            /\ \A j, k \in 1..Len(ps) : ps[j][1] = ps[k][1] => j = k
            \* the table before and after "sbox[0] = 0x63"
            /\ At(dg.enc.buf, 0) = 0 /\ At(encRes.out, 0) = 99
            /\ \A x \in Byte \ {0} : At(dg.enc.buf, x) = At(encRes.out, x)

C28_Witness ==
    /\ mode = "InitSBOX" /\ pc = "done"
    /\ Len(dg.enc.steps) = 255
    /\ dg.enc.steps[1] = <<3, 246>>
    /\ dg.enc.steps[255] = <<1, 1>>
    /\ At(encRes.out, 3) = 123

\* C29: within one EncryptGCM or DecryptGCM call the nonce||counter block
\* whose encryption masks the GHASH output into the tag differs from every
\* nonce||counter block whose encryption is XORed with a byte of the data.
C29_TagBlockNotDataBlock ==
    (mode = "GCM" /\ pc \in {"sent", "done"}) =>
        LET Used(r, n) == {r.inputs[k] : k \in 1..((n + BLOCK_SIZE - 1) \div BLOCK_SIZE)}
        IN  /\ (encRes.err = NoErr /\ ~encRes.panic) =>
                  /\ Len(dg.enc.maskInputs) >= 1
                  /\ Len(dg.enc.inputs) >= (Len(msg.p) + BLOCK_SIZE - 1) \div BLOCK_SIZE
                  /\ dg.enc.maskInputs[1] \notin Used(dg.enc, Len(msg.p))
            /\ (pc = "done" /\ decRes.err = NoErr /\ ~decRes.panic) =>
                  /\ Len(dg.dec.maskInputs) >= 1
                  /\ Len(dg.dec.inputs) >= (Len(decRes.out) + BLOCK_SIZE - 1) \div BLOCK_SIZE
                  /\ dg.dec.maskInputs[1] \notin Used(dg.dec, Len(decRes.out))

\* C30: DecryptGCM (and the GMAC it calls) changes no byte of the slice it
\* is given, nonce, ciphertext and tag, whatever the ciphertext's length, so
\* that a second DecryptGCM of the same slice returns what the first
\* returned.
C30_DecryptGCMKeepsInput ==
    (mode = "GCM" /\ tamper = "none" /\ pc = "done") =>
        /\ dg.dec.buf = wire
        /\ \A second \in {DecryptGCM(cipher.expandedKey, dg.dec.buf, msg.a)} :
              /\ second.out = decRes.out
              /\ second.err = decRes.err
              /\ second.panic = decRes.panic

====
